---- MODULE Spec2Model ----
(***************************************************************************)
(* Conversation Explorer: the in-memory query and aggregation engine of    *)
(* conversation-explorer-v2.js, conversation-explorer.js and the single    *)
(* conversation viewer, modelled as state machines over JSON values.       *)
(*                                                                         *)
(* JSON values are tagged records; a JavaScript string is a sequence of    *)
(* one-character strings, so that toLowerCase, trim, includes and join are *)
(* computed rather than assumed.  Instants are counted in days since the   *)
(* epoch (moment's valueOf() divided by 86400000): every date of the model *)
(* is a calendar day, and the scaling preserves every comparison.          *)
(***************************************************************************)
EXTENDS Integers, Sequences, FiniteSets, TLC

VARIABLES
  tMsg, tPath, tResult,         \* text extraction: message, code path, completion
  sValue, sTerm, sResult,       \* deep search: value, term, outcome
  fConv, fBounds, fPath, fResult,  \* filter predicates: conversation, date bounds, code path, outcome
  oList, oField, oProg, oAsc, oDesc,  \* sorting: list, field, explorer, the two orders
  dataStore, state, ui,         \* conversation-explorer-v2.js: its store, state and list panel
  filterOutput,                 \* filteredConversations as assigned before the sort
  pItems, pPage, pSlice,        \* pagination: list, page index, the page's slice
  aConvs, aProg, aStats, aRuns, \* aggregation: records, explorer, statistics, runs made
  aNow,                         \* aggregation: the day Date.now() falls on
  xRecords, xStore,             \* index: the parsed array, the store after the load
  v1, v1Exported,               \* conversation-explorer.js: its globals, the last file written
  eDisk, eLast,                 \* v2 export: the files on disk, the last export command
  vFile, vResult,               \* validator: the file given, what validateConversationsFile returned
  viewer                        \* single-conversation viewer: its state object

textVars == <<tMsg, tPath, tResult>>
searchVars == <<sValue, sTerm, sResult>>
filterVars == <<fConv, fBounds, fPath, fResult>>
sortVars == <<oList, oField, oProg, oAsc, oDesc>>
progVars == <<dataStore, state, ui, filterOutput>>
pageVars == <<pItems, pPage, pSlice>>
aggVars == <<aConvs, aProg, aStats, aRuns, aNow>>
indexVars == <<xRecords, xStore>>
v1Vars == <<v1, v1Exported>>
exportVars == <<eDisk, eLast>>
validateVars == <<vFile, vResult>>
viewerVars == <<viewer>>
otherVars == <<v1Vars, exportVars, validateVars, viewerVars>>
vars == <<textVars, searchVars, filterVars, sortVars, progVars, pageVars, aggVars, indexVars, otherVars>>

(***************************************************************************)
(* Bounds of the model.                                                    *)
(***************************************************************************)
MaxParts == 2        \* content parts per message
MaxDepth == 2        \* nesting depth of a searched value
MaxMsgs == 2         \* messages per conversation given to the filter predicates
MaxList == 3         \* conversations in a list given to the sort
PageRows == 2        \* state.pageSize of the program model (100 in the program)
MaxItems == 250      \* conversations in a paginated list
MaxPageIndex == 3    \* page indexes given to the pagination
MaxAggConvs == 2     \* conversations in an aggregated array
MaxRuns == 2         \* runs of generateStatistics over one array
MaxRecords == 3      \* conversations in an indexed array
MaxReplyDepth == 3   \* levels of replies below a validated message

(***************************************************************************)
(* JSON values and JavaScript primitives.                                  *)
(***************************************************************************)
JUndefined == [t |-> "undefined"]
JNull == [t |-> "null"]
JNumber(n) == [t |-> "number", n |-> n]
JString(s) == [t |-> "string", s |-> s]
JArray(a) == [t |-> "array", a |-> a]
JObject(o) == [t |-> "object", o |-> o]
JBoolean(b) == [t |-> "boolean", b |-> b]

\* obj[key]: undefined for a missing key and for a primitive receiver.
Get(v, k) == IF v.t = "object" /\ k \in DOMAIN v.o THEN v.o[k] ELSE JUndefined

\* Property access on null or undefined raises a TypeError.
IsNullish(v) == v.t \in {"undefined", "null"}

\* ToBoolean.
Truthy(v) ==
  CASE v.t = "undefined" -> FALSE
    [] v.t = "null" -> FALSE
    [] v.t = "number" -> v.n # 0
    [] v.t = "string" -> v.s # <<>>
    [] v.t = "boolean" -> v.b
    [] OTHER -> TRUE

\* value.length > 0: length is defined on strings and arrays only, and
\* undefined > 0 is false.
LengthPositive(v) ==
  CASE v.t = "string" -> Len(v.s) > 0
    [] v.t = "array" -> Len(v.a) > 0
    [] OTHER -> FALSE

\* String.prototype.toLowerCase on the model's alphabet.
LowerChar(c) ==
  CASE c = "A" -> "a"
    [] c = "B" -> "b"
    [] c = "H" -> "h"
    [] OTHER -> c

ToLowerCase(s) == [i \in 1..Len(s) |-> LowerChar(s[i])]

\* String.prototype.includes.
Includes(s, sub) ==
  \E i \in 0..(Len(s) - Len(sub)) : SubSeq(s, i + 1, i + Len(sub)) = sub

WhiteSpace == {" ", "\n", "\t"}

\* String.prototype.trim.
Trim(s) ==
  LET keep == {i \in 1..Len(s) : s[i] \notin WhiteSpace}
  IN IF keep = {} THEN <<>>
     ELSE SubSeq(s, CHOOSE i \in keep : \A j \in keep : i <= j,
                    CHOOSE i \in keep : \A j \in keep : i >= j)

\* Number to decimal string (non-negative integers).
RECURSIVE NumberToString(_)
NumberToString(n) ==
  LET d == <<"0", "1", "2", "3", "4", "5", "6", "7", "8", "9">>
  IN IF n < 10 THEN <<d[n + 1]>>
     ELSE NumberToString(n \div 10) \o <<d[(n % 10) + 1]>>

\* The string Array.prototype.join makes of one element.
JoinElement(v) ==
  CASE v.t = "string" -> v.s
    [] v.t = "number" -> NumberToString(v.n)
    [] OTHER -> <<>>

\* Array.prototype.join.
RECURSIVE Join(_, _)
Join(a, sep) ==
  IF Len(a) = 0 THEN <<>>
  ELSE IF Len(a) = 1 THEN JoinElement(a[1])
  ELSE JoinElement(a[1]) \o sep \o Join(Tail(a), sep)

Space == <<" ">>
DoubleNewline == <<"\n", "\n">>

\* A completion: a returned value, or a raised TypeError.
Normal(v) == [threw |-> FALSE, v |-> v]
Throw == [threw |-> TRUE, v |-> JUndefined]

(***************************************************************************)
(* Dates: moment(), in days since the epoch.                               *)
(***************************************************************************)
Digits == <<"0", "1", "2", "3", "4", "5", "6", "7", "8", "9">>
IsDigit(c) == \E i \in 1..10 : Digits[i] = c
DigitValue(c) == (CHOOSE i \in 1..10 : Digits[i] = c) - 1

Pad2(n) == <<Digits[(n \div 10) + 1], Digits[(n % 10) + 1]>>
Pad4(n) == Pad2(n \div 100) \o Pad2(n % 100)

\* The ISO string of a calendar day, the form of created_at in a data file.
IsoDate(y, m, d) == Pad4(y) \o <<"-">> \o Pad2(m) \o <<"-">> \o Pad2(d)

IsLeapYear(y) == (y % 4 = 0 /\ y % 100 # 0) \/ y % 400 = 0
DaysInMonth(y, m) ==
  IF m = 2 THEN (IF IsLeapYear(y) THEN 29 ELSE 28)
  ELSE IF m \in {4, 6, 9, 11} THEN 30 ELSE 31

\* Days from 1970-01-01 to the civil date y-m-d.
DaysFromCivil(y, m, d) ==
  LET yy == IF m <= 2 THEN y - 1 ELSE y
      era == yy \div 400
      yoe == yy - era * 400
      mp == IF m > 2 THEN m - 3 ELSE m + 9
      doy == (153 * mp + 2) \div 5 + d - 1
      doe == yoe * 365 + yoe \div 4 - yoe \div 100 + doy
  IN era * 146097 + doe - 719468

\* The civil year and month of a day number.
CivilFromDays(z) ==
  LET zz == z + 719468
      era == zz \div 146097
      doe == zz - era * 146097
      yoe == (doe - doe \div 1460 + doe \div 36524 - doe \div 146096) \div 365
      doy == doe - (365 * yoe + yoe \div 4 - yoe \div 100)
      mp == (5 * doy + 2) \div 153
      m == IF mp < 10 THEN mp + 3 ELSE mp - 9
      y == yoe + era * 400 + (IF m <= 2 THEN 1 ELSE 0)
  IN [y |-> y, m |-> m]

InvalidMoment == [valid |-> FALSE, t |-> 0]
MomentAt(t) == [valid |-> TRUE, t |-> t]

\* moment(string): an ISO calendar day parses; a month or day out of range,
\* or any other text, gives an invalid moment.
ParseDate(s) ==
  IF /\ Len(s) = 10
     /\ s[5] = "-" /\ s[8] = "-"
     /\ \A i \in {1, 2, 3, 4, 6, 7, 9, 10} : IsDigit(s[i])
  THEN LET y == 1000 * DigitValue(s[1]) + 100 * DigitValue(s[2])
                  + 10 * DigitValue(s[3]) + DigitValue(s[4])
           m == 10 * DigitValue(s[6]) + DigitValue(s[7])
           d == 10 * DigitValue(s[9]) + DigitValue(s[10])
       IN IF m \in 1..12 /\ d >= 1 /\ d <= DaysInMonth(y, m)
          THEN MomentAt(DaysFromCivil(y, m, d))
          ELSE InvalidMoment
  ELSE InvalidMoment

\* moment(value) for a number of milliseconds, a string, or null.
moment(v) ==
  CASE v.t = "number" -> MomentAt(v.n \div 86400000)
    [] v.t = "string" -> ParseDate(v.s)
    [] OTHER -> InvalidMoment

\* a || b
OrElse(a, b) == IF Truthy(a) THEN a ELSE b

\* Comparisons with an invalid moment are false.
isBefore(a, b) == a.valid /\ b.valid /\ a.t < b.t
isAfter(a, b) == a.valid /\ b.valid /\ a.t > b.t
addDay(a) == IF a.valid THEN MomentAt(a.t + 1) ELSE a

\* moment.format('YYYY-MM').
formatMonth(a) ==
  IF a.valid THEN Pad4(CivilFromDays(a.t).y) \o <<"-">> \o Pad2(CivilFromDays(a.t).m)
  ELSE <<"I", "n", "v", "a", "l", "i", "d", " ", "d", "a", "t", "e">>

\* JavaScript numbers, as far as sort keys need them: an integer or NaN.
Num(n) == [nan |-> FALSE, n |-> n]
NaN == [nan |-> TRUE, n |-> 0]
valueOf(a) == IF a.valid THEN Num(a.t) ELSE NaN

(***************************************************************************)
(* Text extraction.                                                        *)
(***************************************************************************)
\* .filter(item => item && item.text).map(item => item.text)
TextItems(content) ==
  LET kept == SelectSeq(content, LAMBDA item : Truthy(item) /\ Truthy(Get(item, "text")))
  IN [i \in 1..Len(kept) |-> Get(kept[i], "text")]

\* A variant that prefers the content parts to the direct text.
getMessageText_ContentFirst(message) ==
  IF ~Truthy(message) THEN JString(<<>>)
  ELSE IF Get(message, "content").t = "array"
       THEN JString(Join(TextItems(Get(message, "content").a), DoubleNewline))
  ELSE IF Truthy(Get(message, "text")) /\ Get(message, "text").t = "string"
       THEN Get(message, "text")
  ELSE JString(<<>>)

\* helpers.getMessageText of conversation-explorer-v2.js.
getMessageText(message) ==
  IF ~Truthy(message) THEN JString(<<>>)
  ELSE IF Truthy(Get(message, "text")) /\ Get(message, "text").t = "string"
       THEN Get(message, "text")
  ELSE IF Get(message, "content").t = "array"
       THEN JString(Join(TextItems(Get(message, "content").a), DoubleNewline))
  ELSE JString(<<>>)

\* getMessageText of the single conversation viewer.
viewerGetMessageText(message) ==
  IF ~Truthy(message) THEN JString(<<>>)
  ELSE IF Truthy(Get(message, "text")) /\ Get(message, "text").t = "string"
       THEN Get(message, "text")
  ELSE IF Get(message, "content").t = "array"
       THEN JString(Join(TextItems(Get(message, "content").a), DoubleNewline))
  ELSE JString(<<>>)

\* msg.content.map(part => part.text || '').join(sep): reading part.text of a
\* null part raises, and only arrays have map.
MapPartTexts(content, sep) ==
  IF content.t # "array" THEN Throw
  ELSE IF \E i \in 1..Len(content.a) : IsNullish(content.a[i]) THEN Throw
  ELSE Normal(JString(Join(
         [i \in 1..Len(content.a) |->
            IF Truthy(Get(content.a[i], "text")) THEN Get(content.a[i], "text")
            ELSE JString(<<>>)], sep)))

\* The inline extraction of conversation-explorer.js
\* (generateStatistics, showEmptyMessages, exportMessages) and getMessageText
\* of the analysis script, which differ in the separator only.
inlineMessageText(msg, sep) ==
  IF IsNullish(msg) THEN Throw
  ELSE IF Truthy(Get(msg, "text")) /\ LengthPositive(Get(msg, "text"))
       THEN Normal(Get(msg, "text"))
  ELSE IF Truthy(Get(msg, "content")) /\ LengthPositive(Get(msg, "content"))
       THEN MapPartTexts(Get(msg, "content"), sep)
  ELSE Normal(JString(<<>>))

\* The code paths that derive a message's text.
v2StatisticsText(msg) == Normal(getMessageText(msg))
v2EmptyCheckText(msg) == Normal(getMessageText(msg))
v2ExportText(msg) == Normal(getMessageText(msg))
viewerText(msg) == Normal(viewerGetMessageText(msg))
v1StatisticsText(msg) == inlineMessageText(msg, Space)
v1EmptyCheckText(msg) == inlineMessageText(msg, Space)
v1ExportText(msg) == inlineMessageText(msg, DoubleNewline)
analysisText(msg) == inlineMessageText(msg, Space)

(***************************************************************************)
(* Inputs of the text extraction.                                          *)
(***************************************************************************)
RECURSIVE SeqsUpTo(_, _)
SeqsUpTo(S, n) ==
  IF n = 0 THEN {<<>>}
  ELSE LET shorter == SeqsUpTo(S, n - 1)
       IN shorter \cup {Append(s, x) : s \in {q \in shorter : Len(q) = n - 1}, x \in S}

PartValues ==
  { JNull,
    JObject([type |-> JString(<<"t">>)]),
    JObject([text |-> JString(<<>>)]),
    JObject([text |-> JString(<<"a">>)]),
    JObject([text |-> JString(<<" ">>)]),
    JObject([text |-> JNumber(7)]) }

TextValues ==
  { JNull, JNumber(5), JString(<<>>), JString(<<" ">>), JString(<<"H", "i">>),
    JArray(<<JString(<<"x">>)>>) }

ContentValues ==
  { JNull, JString(<<"z">>) } \cup { JArray(a) : a \in SeqsUpTo(PartValues, MaxParts) }

MessageValues ==
  { JNull, JUndefined }
  \cup { JObject(<<>>) }
  \cup { JObject([text |-> x]) : x \in TextValues }
  \cup { JObject([content |-> c]) : c \in ContentValues }
  \cup { JObject([text |-> x, content |-> c]) : x \in TextValues, c \in ContentValues }

TextPaths ==
  { "v2Statistics", "v2EmptyCheck", "v2Export", "viewer",
    "v1Statistics", "v1EmptyCheck", "v1Export", "analysis" }

IdleText == tMsg = JUndefined /\ tPath = "none" /\ tResult = Normal(JUndefined)
IdleSearch == sValue = JUndefined /\ sTerm = <<>> /\ sResult = "none"
IdleFilter ==
  /\ fConv = JUndefined
  /\ fBounds = [dateStart |-> [isNull |-> TRUE, m |-> InvalidMoment],
                dateEnd |-> [isNull |-> TRUE, m |-> InvalidMoment]]
  /\ fPath = "none" /\ fResult = "none"
IdleSort == oList = <<>> /\ oField = "none" /\ oProg = "none" /\ oAsc = <<>> /\ oDesc = <<>>
IdleProgram ==
  /\ dataStore = <<>> /\ state = <<>> /\ ui = <<>> /\ filterOutput = <<>>
IdlePage == pItems = <<>> /\ pPage = 0 /\ pSlice = <<>>
IdleIndex == xRecords = <<>> /\ xStore = <<>>
IdleV1 == v1 = <<>> /\ v1Exported = <<>>
NoExport == [called |-> FALSE, writable |-> TRUE, returned |-> FALSE, writes |-> 0, path |-> <<>>]
IdleExport == eDisk = {} /\ eLast = NoExport
IdleValidate == vFile = <<>> /\ vResult = <<>>
IdleViewer == viewer = <<>>
IdleOther == IdleV1 /\ IdleExport /\ IdleValidate /\ IdleViewer
IdleAgg == aConvs = <<>> /\ aProg = "none" /\ aStats = <<>> /\ aRuns = 0 /\ aNow = 0

InitText ==
  /\ tMsg \in MessageValues /\ tPath = "none" /\ tResult = Normal(JUndefined)
  /\ IdleSearch /\ IdleFilter /\ IdleSort /\ IdleProgram /\ IdlePage /\ IdleAgg /\ IdleIndex /\ IdleOther

ExtractV2Statistics == tPath' = "v2Statistics" /\ tResult' = v2StatisticsText(tMsg) /\ UNCHANGED <<tMsg, searchVars, filterVars, sortVars, progVars, pageVars, aggVars, indexVars, otherVars>>
ExtractV2EmptyCheck == tPath' = "v2EmptyCheck" /\ tResult' = v2EmptyCheckText(tMsg) /\ UNCHANGED <<tMsg, searchVars, filterVars, sortVars, progVars, pageVars, aggVars, indexVars, otherVars>>
ExtractV2Export == tPath' = "v2Export" /\ tResult' = v2ExportText(tMsg) /\ UNCHANGED <<tMsg, searchVars, filterVars, sortVars, progVars, pageVars, aggVars, indexVars, otherVars>>
ExtractViewer == tPath' = "viewer" /\ tResult' = viewerText(tMsg) /\ UNCHANGED <<tMsg, searchVars, filterVars, sortVars, progVars, pageVars, aggVars, indexVars, otherVars>>
ExtractV1Statistics == tPath' = "v1Statistics" /\ tResult' = v1StatisticsText(tMsg) /\ UNCHANGED <<tMsg, searchVars, filterVars, sortVars, progVars, pageVars, aggVars, indexVars, otherVars>>
ExtractV1EmptyCheck == tPath' = "v1EmptyCheck" /\ tResult' = v1EmptyCheckText(tMsg) /\ UNCHANGED <<tMsg, searchVars, filterVars, sortVars, progVars, pageVars, aggVars, indexVars, otherVars>>
ExtractV1Export == tPath' = "v1Export" /\ tResult' = v1ExportText(tMsg) /\ UNCHANGED <<tMsg, searchVars, filterVars, sortVars, progVars, pageVars, aggVars, indexVars, otherVars>>
ExtractAnalysis == tPath' = "analysis" /\ tResult' = analysisText(tMsg) /\ UNCHANGED <<tMsg, searchVars, filterVars, sortVars, progVars, pageVars, aggVars, indexVars, otherVars>>

NextText ==
  \/ ExtractV2Statistics
  \/ ExtractV2EmptyCheck
  \/ ExtractV2Export
  \/ ExtractViewer
  \/ ExtractV1Statistics
  \/ ExtractV1EmptyCheck
  \/ ExtractV1Export
  \/ ExtractAnalysis

SpecText == InitText /\ [][NextText]_vars

(***************************************************************************)
(* Deep search.                                                            *)
(***************************************************************************)
\* A variant that compares case-sensitively.
RECURSIVE deepSearch_CaseSensitive(_, _)
deepSearch_CaseSensitive(obj, term) ==
  IF ~Truthy(obj) \/ term = <<>> THEN FALSE
  ELSE IF obj.t = "string" THEN Includes(obj.s, term)
  ELSE IF obj.t = "array"
       THEN \E i \in 1..Len(obj.a) : deepSearch_CaseSensitive(obj.a[i], term)
  ELSE IF obj.t = "object"
       THEN \E key \in DOMAIN obj.o :
              \/ obj.o[key].t = "string" /\ Includes(obj.o[key].s, term)
              \/ /\ obj.o[key].t \in {"object", "array", "null"}
                 /\ deepSearch_CaseSensitive(obj.o[key], term)
  ELSE FALSE

\* helpers.deepSearch of conversation-explorer-v2.js; term is a string.
\* typeof null is 'object', and a null or otherwise falsy value returns false
\* at the first line.
RECURSIVE deepSearch(_, _)
deepSearch(obj, term) ==
  IF ~Truthy(obj) \/ term = <<>> THEN FALSE
  ELSE IF obj.t = "string" THEN Includes(ToLowerCase(obj.s), ToLowerCase(term))
  ELSE IF obj.t = "array"
       THEN \E i \in 1..Len(obj.a) : deepSearch(obj.a[i], ToLowerCase(term))
  ELSE IF obj.t = "object"
       THEN \E key \in DOMAIN obj.o :
              \/ /\ obj.o[key].t = "string"
                 /\ Includes(ToLowerCase(obj.o[key].s), ToLowerCase(term))
              \/ /\ obj.o[key].t \in {"object", "array", "null"}
                 /\ deepSearch(obj.o[key], ToLowerCase(term))
  ELSE FALSE

SearchLeaves ==
  { JNull, JNumber(1), JBoolean(TRUE), JString(<<>>), JString(<<"x", "A", "b">>),
    JString(<<"b">>) }

\* One more level of nesting around the values of S.
Nest(S) ==
  { JArray(<<x>>) : x \in S }
  \cup { JArray(<<JNumber(1), x>>) : x \in S }
  \cup { JObject([k |-> x]) : x \in S }
  \cup { JObject([ab |-> JNumber(1), k |-> x]) : x \in S }
  \cup { JObject([ab |-> x, k |-> JString(<<"B">>)]) : x \in S }

RECURSIVE SearchValues(_)
SearchValues(depth) ==
  IF depth = 0 THEN SearchLeaves
  ELSE SearchValues(depth - 1) \cup Nest(SearchValues(depth - 1))

SearchTerms == { <<>>, <<"a", "b">>, <<"A", "B">>, <<"k">>, <<"1">> }

InitSearch ==
  /\ sValue \in SearchValues(MaxDepth)
  /\ sTerm \in SearchTerms
  /\ sResult = "none"
  /\ IdleText /\ IdleFilter /\ IdleSort /\ IdleProgram /\ IdlePage /\ IdleAgg /\ IdleIndex /\ IdleOther

DeepSearch ==
  /\ sResult' = IF deepSearch(sValue, sTerm) THEN "match" ELSE "no match"
  /\ UNCHANGED <<sValue, sTerm, textVars, filterVars, sortVars, progVars, pageVars, aggVars, indexVars, otherVars>>

NextSearch == DeepSearch

SpecSearch == InitSearch /\ [][NextSearch]_vars

\* The strings reachable in a value: the value itself, an array element, an
\* object's value, at any depth (never a key).
RECURSIVE ReachableStrings(_)
ReachableStrings(v) ==
  CASE v.t = "string" -> {v.s}
    [] v.t = "array" -> UNION { ReachableStrings(v.a[i]) : i \in 1..Len(v.a) }
    [] v.t = "object" -> UNION { ReachableStrings(v.o[k]) : k \in DOMAIN v.o }
    [] OTHER -> {}

\* C9: with a non-empty term, deepSearch returns true exactly when some string
\* reachable in the value contains the term as a case-insensitive substring;
\* numbers, booleans and null never match, and keys are never matched.
C9_DeepSearchMatches ==
  sResult # "none" /\ sTerm # <<>> =>
    /\ (sResult = "match") <=>
         \E str \in ReachableStrings(sValue) :
           Includes(ToLowerCase(str), ToLowerCase(sTerm))
    /\ sValue.t \in {"number", "boolean", "null"} => sResult = "no match"

C9_Witness ==
  /\ sResult = "match"
  /\ sTerm = <<"A", "B">>
  /\ sValue = JObject([ab |-> JNumber(1), k |-> JArray(<<JNumber(1), JString(<<"x", "A", "b">>)>>)])

(***************************************************************************)
(* Conversation helpers and the filter predicates.                         *)
(***************************************************************************)
\* helpers.getConversationSize
getConversationSize(conversation) ==
  IF ~Truthy(conversation) THEN 0
  ELSE LET messageCount == IF Get(conversation, "chat_messages").t = "array"
                           THEN Len(Get(conversation, "chat_messages").a) ELSE 0
       IN 500 + (messageCount * 2000)

\* helpers.getMessageCount
getMessageCount(conversation) ==
  IF ~Truthy(conversation) \/ Get(conversation, "chat_messages").t # "array" THEN 0
  ELSE Len(Get(conversation, "chat_messages").a)

\* helpers.hasEmptyMessages
hasEmptyMessages(conversation) ==
  IF ~Truthy(conversation) \/ Get(conversation, "chat_messages").t # "array" THEN FALSE
  ELSE \E i \in 1..Len(Get(conversation, "chat_messages").a) :
         LET text == getMessageText(Get(conversation, "chat_messages").a[i])
         IN ~Truthy(text) \/ Len(Trim(text.s)) = 0

\* The predicate of showEmptyMessages' filter in conversation-explorer.js:
\* "kept", "dropped", or "threw" when a message raises before an empty one is
\* found (Array.prototype.some visits the messages in order).
RECURSIVE someEmptyV1(_)
someEmptyV1(msgs) ==
  IF msgs = <<>> THEN "dropped"
  ELSE LET messageText == v1EmptyCheckText(Head(msgs))
       IN IF messageText.threw \/ messageText.v.t # "string" THEN "threw"
          ELSE IF Len(Trim(messageText.v.s)) = 0 THEN "kept"
          ELSE someEmptyV1(Tail(msgs))

showEmptyMessagesKeeps(conv) ==
  IF IsNullish(conv) THEN "threw"
  ELSE IF ~Truthy(Get(conv, "chat_messages")) THEN "dropped"
  ELSE IF Get(conv, "chat_messages").t # "array" THEN "threw"
  ELSE IF Len(Get(conv, "chat_messages").a) = 0 THEN "dropped"
  ELSE someEmptyV1(Get(conv, "chat_messages").a)

\* A date bound of the filter settings: null, or a moment.
NullDate == [isNull |-> TRUE, m |-> InvalidMoment]
DateBound(m) == [isNull |-> FALSE, m |-> m]

\* The date filter of filterAndSortData (conversation-explorer-v2.js).
dateFilterKeeps(conv, dateStart, dateEnd) ==
  IF dateStart.isNull /\ dateEnd.isNull THEN TRUE
  ELSE LET date == moment(OrElse(Get(conv, "created_at"), JNumber(0)))
       IN IF ~dateStart.isNull /\ isBefore(date, dateStart.m) THEN FALSE
          ELSE IF ~dateEnd.isNull /\ isAfter(date, dateEnd.m) THEN FALSE
          ELSE TRUE

\* The date filter of showConversations (conversation-explorer.js); now is
\* Date.now() in days.
v1DateFilterKeeps(item, filterStartDate, filterEndDate, now) ==
  IF filterStartDate.isNull /\ filterEndDate.isNull THEN TRUE
  ELSE LET date == IF Truthy(Get(item, "created_at")) THEN moment(Get(item, "created_at"))
                   ELSE MomentAt(now)
       IN IF ~filterStartDate.isNull /\ isBefore(date, filterStartDate.m) THEN FALSE
          ELSE IF ~filterEndDate.isNull /\ isAfter(date, filterEndDate.m) THEN FALSE
          ELSE TRUE

\* "filter <start> to <end>" and "filter <day>" of handleCommand.
filterRangeBounds(start, end) ==
  [dateStart |-> DateBound(moment(JString(start))), dateEnd |-> DateBound(moment(JString(end)))]
filterDayBounds(dateStr) ==
  [dateStart |-> DateBound(moment(JString(dateStr))),
   dateEnd |-> DateBound(addDay(moment(JString(dateStr))))]
noBounds == [dateStart |-> NullDate, dateEnd |-> NullDate]

(***************************************************************************)
(* The filter predicates applied to one conversation.                      *)
(***************************************************************************)
Today == DaysFromCivil(2025, 6, 1)

FilterMessages ==
  { JNull,
    JObject(<<>>),
    JObject([text |-> JString(<<"H", "i">>)]),
    JObject([text |-> JString(<<" ">>)]),
    JObject([text |-> JString(<<>>),
             content |-> JArray(<<JObject([text |-> JString(<<"\n">>)]),
                                  JObject([type |-> JString(<<"t">>)])>>)]),
    JObject([content |-> JArray(<<JObject([text |-> JString(<<"a">>)])>>)]),
    JObject([content |-> JArray(<<JNull>>)]) }

CreatedAtValues ==
  { JString(IsoDate(2023, 12, 31)), JString(IsoDate(2024, 1, 1)),
    JString(IsoDate(2024, 2, 10)), JString(IsoDate(2024, 2, 11)),
    JString(IsoDate(2024, 2, 12)), JString(<<"s", "o", "o", "n">>) }

FilterConvs ==
  { JObject(<<>>) }
  \cup { JObject([created_at |-> c]) : c \in CreatedAtValues }
  \cup { JObject([chat_messages |-> JArray(m)]) : m \in SeqsUpTo(FilterMessages, MaxMsgs) }
  \cup { JObject([created_at |-> c, chat_messages |-> JArray(m)]) :
           c \in CreatedAtValues, m \in SeqsUpTo(FilterMessages, MaxMsgs) }

Junk == <<"j", "u", "n", "k">>

BoundsInputs ==
  { noBounds,
    filterRangeBounds(IsoDate(2024, 1, 1), IsoDate(2024, 2, 10)),
    filterRangeBounds(Junk, IsoDate(2024, 2, 10)),
    filterRangeBounds(IsoDate(2024, 1, 1), Junk),
    filterDayBounds(IsoDate(2024, 2, 10)) }

InitFilter ==
  /\ fConv \in FilterConvs
  /\ fBounds \in BoundsInputs
  /\ fPath = "none" /\ fResult = "none"
  /\ IdleText /\ IdleSearch /\ IdleSort /\ IdleProgram /\ IdlePage /\ IdleAgg /\ IdleIndex /\ IdleOther

Outcome(b) == IF b THEN "kept" ELSE "dropped"

FilterDateV2 ==
  /\ fPath' = "v2Date"
  /\ fResult' = Outcome(dateFilterKeeps(fConv, fBounds.dateStart, fBounds.dateEnd))
  /\ UNCHANGED <<fConv, fBounds, textVars, searchVars, sortVars, progVars, pageVars, aggVars, indexVars, otherVars>>

FilterDateV1 ==
  /\ fPath' = "v1Date"
  /\ fResult' = Outcome(v1DateFilterKeeps(fConv, fBounds.dateStart, fBounds.dateEnd, Today))
  /\ UNCHANGED <<fConv, fBounds, textVars, searchVars, sortVars, progVars, pageVars, aggVars, indexVars, otherVars>>

FilterEmptyV2 ==
  /\ fPath' = "v2Empty"
  /\ fResult' = Outcome(hasEmptyMessages(fConv))
  /\ UNCHANGED <<fConv, fBounds, textVars, searchVars, sortVars, progVars, pageVars, aggVars, indexVars, otherVars>>

FilterEmptyV1 ==
  /\ fPath' = "v1Empty"
  /\ fResult' = showEmptyMessagesKeeps(fConv)
  /\ UNCHANGED <<fConv, fBounds, textVars, searchVars, sortVars, progVars, pageVars, aggVars, indexVars, otherVars>>

NextFilter ==
  \/ FilterDateV2
  \/ FilterDateV1
  \/ FilterEmptyV2
  \/ FilterEmptyV1

SpecFilter == InitFilter /\ [][NextFilter]_vars

(***************************************************************************)
(* Sorting: Array.prototype.sort with the explorers' comparators.          *)
(***************************************************************************)
RECURSIVE SumSeq(_)
SumSeq(q) == IF q = <<>> THEN 0 ELSE Head(q) + SumSeq(Tail(q))

\* JSON.stringify(value).length
EscapedWidth(c) == IF c \in {"\n", "\t", "\"", "\\"} THEN 2 ELSE 1

RECURSIVE JsonLength(_)
RECURSIVE FieldsLength(_, _)
FieldsLength(o, keys) ==
  IF keys = {} THEN 0
  ELSE LET k == CHOOSE x \in keys : TRUE
       IN Len(k) + 3 + JsonLength(o[k]) + FieldsLength(o, keys \ {k})

JsonLength(v) ==
  CASE v.t = "number" -> Len(NumberToString(v.n))
    [] v.t = "boolean" -> IF v.b THEN 4 ELSE 5
    [] v.t = "string" -> 2 + SumSeq([i \in 1..Len(v.s) |-> EscapedWidth(v.s[i])])
    [] v.t = "array" ->
         2 + SumSeq([i \in 1..Len(v.a) |-> JsonLength(v.a[i])])
           + (IF Len(v.a) > 1 THEN Len(v.a) - 1 ELSE 0)
    [] v.t = "object" ->
         2 + FieldsLength(v.o, DOMAIN v.o)
           + (IF Cardinality(DOMAIN v.o) > 1 THEN Cardinality(DOMAIN v.o) - 1 ELSE 0)
    [] OTHER -> 4

\* The sort key of filterAndSortData (conversation-explorer-v2.js).
sortKey(conv, field) ==
  CASE field = "date" -> valueOf(moment(OrElse(Get(conv, "created_at"), JNumber(0))))
    [] field = "size" -> Num(getConversationSize(conv))
    [] field = "messages" -> Num(getMessageCount(conv))
    [] OTHER -> NaN

\* (a.chat_messages || []).length
v1MessagesLength(conv) ==
  LET m == Get(conv, "chat_messages")
  IN IF ~Truthy(m) THEN Num(0)
     ELSE IF m.t = "array" THEN Num(Len(m.a))
     ELSE IF m.t = "string" THEN Num(Len(m.s))
     ELSE NaN

\* The sort key of showConversations (conversation-explorer.js).
v1SortKey(conv, sortBy) ==
  CASE sortBy = "date" -> valueOf(moment(OrElse(Get(conv, "created_at"), JNumber(0))))
    [] sortBy = "size" -> Num(JsonLength(conv))
    [] sortBy = "messages" -> v1MessagesLength(conv)
    [] OTHER -> NaN

\* direction === 'asc' ? aVal - bVal : bVal - aVal
compareValues(aVal, bVal, direction) ==
  IF aVal.nan \/ bVal.nan THEN NaN
  ELSE Num(IF direction = "asc" THEN aVal.n - bVal.n ELSE bVal.n - aVal.n)

\* SortCompare reads a NaN result of the comparator as +0.
SortCompare(v) == IF v.nan THEN 0 ELSE IF v.n < 0 THEN -1 ELSE IF v.n > 0 THEN 1 ELSE 0

\* The comparator's verdict on the items at positions i and j of a list,
\* given the list's keys.
compare(keys, direction, i, j) == SortCompare(compareValues(keys[i], keys[j], direction))

\* A consistent comparator (ECMAScript, Array.prototype.sort).
ConsistentComparator(keys, direction) ==
  \A x, y, z \in 1..Len(keys) :
    /\ compare(keys, direction, x, y) = 0 /\ compare(keys, direction, y, z) = 0
         => compare(keys, direction, x, z) = 0
    /\ compare(keys, direction, x, y) < 0 /\ compare(keys, direction, y, z) < 0
         => compare(keys, direction, x, z) < 0
    /\ compare(keys, direction, x, y) > 0 /\ compare(keys, direction, y, z) > 0
         => compare(keys, direction, x, z) > 0

\* The stable sort of the positions q.
RECURSIVE StableSort(_, _, _)
StableSort(q, keys, direction) ==
  IF q = <<>> THEN <<>>
  ELSE LET front == StableSort(SubSeq(q, 1, Len(q) - 1), keys, direction)
           x == q[Len(q)]
           k == Cardinality({i \in 1..Len(front) : compare(keys, direction, front[i], x) <= 0})
       IN SubSeq(front, 1, k) \o <<x>> \o SubSeq(front, k + 1, Len(front))

Indices(q) == [i \in 1..Len(q) |-> i]

Reorderings(n) ==
  { p \in [1..n -> 1..n] : \A i, j \in 1..n : p[i] = p[j] => i = j }

\* Array.prototype.sort, as the positions of the input in their new order:
\* stable under a consistent comparator; under an inconsistent one the order is
\* implementation-defined.
SortOutcomes(keys, direction) ==
  IF ConsistentComparator(keys, direction)
  THEN {StableSort(Indices(keys), keys, direction)}
  ELSE Reorderings(Len(keys))

RECURSIVE sortKeys(_, _, _)
sortKeys(conversations, filtered, field) ==
  IF filtered = <<>> THEN <<>>
  ELSE <<sortKey(conversations[Head(filtered)], field)>>
       \o sortKeys(conversations, Tail(filtered), field)

\* The sort step of filterAndSortData over references into conversations.
sortFiltered(conversations, filtered, sort) ==
  LET keys == sortKeys(conversations, filtered, sort.field)
  IN { [k \in 1..Len(filtered) |-> filtered[p[k]]] : p \in SortOutcomes(keys, sort.direction) }

RECURSIVE v1SortKeys(_, _, _)
v1SortKeys(conversationData, view, sortBy) ==
  IF view = <<>> THEN <<>>
  ELSE <<v1SortKey(conversationData[Head(view)], sortBy)>>
       \o v1SortKeys(conversationData, Tail(view), sortBy)

\* The sort step of showConversations (conversation-explorer.js).
v1SortView(conversationData, view, sortBy, sortDirection) ==
  LET keys == v1SortKeys(conversationData, view, sortBy)
  IN { [k \in 1..Len(view) |-> view[p[k]]] : p \in SortOutcomes(keys, sortDirection) }

SortConvJan ==
  JObject([uuid |-> JString(<<"a", "1">>), created_at |-> JString(IsoDate(2024, 1, 1)),
           chat_messages |-> JArray(<<JObject([text |-> JString(<<"H", "i">>)])>>)])
SortConvMar ==
  JObject([uuid |-> JString(<<"b", "2">>), created_at |-> JString(IsoDate(2024, 3, 15)),
           chat_messages |-> JArray(<<JObject([text |-> JString(<<"a">>)]),
                                      JObject([text |-> JString(<<"b">>)])>>)])
SortConvFeb ==
  JObject([uuid |-> JString(<<"c", "3">>), created_at |-> JString(IsoDate(2024, 2, 10)),
           chat_messages |-> JArray(<<>>)])
SortConvNoDate == JObject([uuid |-> JString(<<"d", "4">>)])
SortConvBadDate ==
  JObject([uuid |-> JString(<<"e", "5">>), created_at |-> JString(<<"s", "o", "o", "n">>),
           chat_messages |-> JArray(<<JObject(<<>>), JObject(<<>>), JObject(<<>>)>>)])

\* An array element that is not a conversation: the number 0.
SortElementZero == JNumber(0)

SortPool ==
  {SortConvJan, SortConvMar, SortConvFeb, SortConvNoDate, SortConvBadDate, SortElementZero}
SortFields == {"date", "size", "messages"}

InitSort ==
  /\ oList \in SeqsUpTo(SortPool, MaxList)
  /\ oField \in SortFields
  /\ oProg = "none" /\ oAsc = <<>> /\ oDesc = <<>>
  /\ IdleText /\ IdleSearch /\ IdleFilter /\ IdleProgram /\ IdlePage /\ IdleAgg /\ IdleIndex /\ IdleOther

SortV2 ==
  /\ oProg' = "v2"
  /\ oAsc' \in sortFiltered(oList, Indices(oList), [field |-> oField, direction |-> "asc"])
  /\ oDesc' \in sortFiltered(oList, Indices(oList), [field |-> oField, direction |-> "desc"])
  /\ UNCHANGED <<oList, oField, textVars, searchVars, filterVars, progVars, pageVars, aggVars, indexVars, otherVars>>

SortV1 ==
  /\ oProg' = "v1"
  /\ oAsc' \in v1SortView(oList, Indices(oList), oField, "asc")
  /\ oDesc' \in v1SortView(oList, Indices(oList), oField, "desc")
  /\ UNCHANGED <<oList, oField, textVars, searchVars, filterVars, progVars, pageVars, aggVars, indexVars, otherVars>>

NextSort ==
  \/ SortV2
  \/ SortV1

SpecSort == InitSort /\ [][NextSort]_vars

(***************************************************************************)
(* conversation-explorer-v2.js: filter step, index and statistics.         *)
(***************************************************************************)
pageSize == 100

NoFilters ==
  [dateStart |-> NullDate, dateEnd |-> NullDate, searchTerm |-> <<>>,
   hasMessages |-> FALSE, hasEmptyMessages |-> FALSE]

DefaultSort == [field |-> "date", direction |-> "desc"]

\* A variant that hands every search term, empty or not, to deepSearch.
filterKeeps_AlwaysSearch(conv, filters) ==
  IF ~dateFilterKeeps(conv, filters.dateStart, filters.dateEnd) THEN FALSE
  ELSE IF filters.hasMessages
          /\ (Get(conv, "chat_messages").t # "array" \/ Len(Get(conv, "chat_messages").a) = 0)
       THEN FALSE
  ELSE IF filters.hasEmptyMessages /\ ~hasEmptyMessages(conv) THEN FALSE
  ELSE IF ~deepSearch(conv, filters.searchTerm) THEN FALSE
  ELSE TRUE

\* The callback of dataStore.conversations.filter in filterAndSortData.
filterKeeps(conv, filters) ==
  IF ~dateFilterKeeps(conv, filters.dateStart, filters.dateEnd) THEN FALSE
  ELSE IF filters.hasMessages
          /\ (Get(conv, "chat_messages").t # "array" \/ Len(Get(conv, "chat_messages").a) = 0)
       THEN FALSE
  ELSE IF filters.hasEmptyMessages /\ ~hasEmptyMessages(conv) THEN FALSE
  ELSE IF filters.searchTerm # <<>> /\ ~deepSearch(conv, filters.searchTerm) THEN FALSE
  ELSE TRUE

\* The filter step: the kept conversations, as references (positions) into
\* dataStore.conversations, in the order Array.prototype.filter visits them.
filterStep(conversations, filters) ==
  SelectSeq(Indices(conversations), LAMBDA i : filterKeeps(conversations[i], filters))

EmptyMap == [x \in {} |-> 0]
Put(f, k, v) == [x \in DOMAIN f \cup {k} |-> IF x = k THEN v ELSE f[x]]

\* conversations.forEach((conv, idx) => { if (conv.uuid) index.set(conv.uuid, idx) })
RECURSIVE buildIndex(_, _, _)
buildIndex(index, conversations, idx) ==
  IF idx >= Len(conversations) THEN index
  ELSE LET conv == conversations[idx + 1]
       IN buildIndex(IF Truthy(Get(conv, "uuid")) THEN Put(index, Get(conv, "uuid"), idx)
                     ELSE index,
                     conversations, idx + 1)

EmptyStats ==
  [totalConversations |-> 0, totalMessages |-> 0, messagesByRole |-> EmptyMap,
   conversationsByMonth |-> EmptyMap, emptyMessages |-> 0,
   messageLengths |-> [empty |-> 0, short |-> 0, medium |-> 0, long |-> 0]]

Unknown == <<"u", "n", "k", "n", "o", "w", "n">>

\* The body of conv.chat_messages.forEach in generateStatistics.
countMessage(stats, msg) ==
  LET role == JoinElement(OrElse(Get(msg, "sender"), JString(Unknown)))
      byRole == Put(stats.messagesByRole, role,
                    (IF role \in DOMAIN stats.messagesByRole
                     THEN stats.messagesByRole[role] ELSE 0) + 1)
      text == getMessageText(msg)
      textLength == IF Truthy(text) THEN Len(Trim(text.s)) ELSE 0
  IN IF textLength = 0
     THEN [stats EXCEPT !.messagesByRole = byRole, !.emptyMessages = @ + 1,
                        !.messageLengths.empty = @ + 1]
     ELSE IF textLength <= 50
     THEN [stats EXCEPT !.messagesByRole = byRole, !.messageLengths.short = @ + 1]
     ELSE IF textLength <= 500
     THEN [stats EXCEPT !.messagesByRole = byRole, !.messageLengths.medium = @ + 1]
     ELSE [stats EXCEPT !.messagesByRole = byRole, !.messageLengths.long = @ + 1]

RECURSIVE countMessages(_, _)
countMessages(stats, msgs) ==
  IF msgs = <<>> THEN stats
  ELSE countMessages(countMessage(stats, Head(msgs)), Tail(msgs))

\* The body of dataStore.conversations.forEach in generateStatistics.
countConversation(stats, conv) ==
  LET created == Get(conv, "created_at")
      month == formatMonth(moment(created))
      byMonth == IF ~Truthy(created) THEN stats.conversationsByMonth
                 ELSE IF month \in DOMAIN stats.conversationsByMonth
                 THEN [stats.conversationsByMonth EXCEPT ![month].conversations = @ + 1]
                 ELSE Put(stats.conversationsByMonth, month,
                          [conversations |-> 1, messages |-> 0])
      s1 == [stats EXCEPT !.conversationsByMonth = byMonth]
  IN IF Get(conv, "chat_messages").t # "array" THEN s1
     ELSE LET messageCount == Len(Get(conv, "chat_messages").a)
              s2 == [s1 EXCEPT !.totalMessages = @ + messageCount,
                               !.conversationsByMonth =
                                  IF Truthy(created) /\ month \in DOMAIN byMonth
                                  THEN [byMonth EXCEPT ![month].messages = @ + messageCount]
                                  ELSE byMonth]
          IN countMessages(s2, Get(conv, "chat_messages").a)

RECURSIVE countConversations(_, _)
countConversations(stats, convs) ==
  IF convs = <<>> THEN stats
  ELSE countConversations(countConversation(stats, Head(convs)), Tail(convs))

\* generateStatistics: every count but totalConversations starts from zero.
generateStatistics(stats, conversations) ==
  countConversations([EmptyStats EXCEPT !.totalConversations = stats.totalConversations],
                     conversations)

(***************************************************************************)
(* conversation-explorer-v2.js: the views.                                 *)
(*                                                                         *)
(* A view is computed from the store and the state and yields the new      *)
(* store, state and list rows; showConversations also yields the filter    *)
(* step's result.  The conversations of the model carry a string uuid, so  *)
(* the row titles are always defined.                                      *)
(***************************************************************************)
Min(a, b) == IF a < b THEN a ELSE b

\* Math.ceil(totalItems / pageSize)
totalPages(totalItems, size) == (totalItems + size - 1) \div size

\* A variant whose pages end one row early.
pageSlice_ShortPage(filtered, currentPage, size) ==
  LET totalItems == Len(filtered)
      pageStart == currentPage * size
      pageEnd == Min(pageStart + size - 1, totalItems)
  IN SubSeq(filtered, pageStart + 1, pageEnd)

\* filteredConversations.slice(pageStart, pageEnd) of showConversations.
pageSlice(filtered, currentPage, size) ==
  LET totalItems == Len(filtered)
      pageStart == currentPage * size
      pageEnd == Min(pageStart + size, totalItems)
  IN SubSeq(filtered, pageStart + 1, pageEnd)

\* state.currentItems[idx] = value, for idx = 0 .. Len(values) - 1: the
\* entries beyond the new rows stay.
storeItems(currentItems, values) ==
  [i \in 1..(IF Len(values) > Len(currentItems) THEN Len(values) ELSE Len(currentItems)) |->
     IF i <= Len(values) THEN values[i] ELSE currentItems[i]]

\* A row of the list panel: a conversation's line with its title (the name, or
\* else the uuid), a message's line with its number, a page header, a text line.
Row(kind, ref) == [kind |-> kind, ref |-> ref]

\* ui.status is the kind of the message setStatus showed last: "error" for
\* "Error loading data: ...", "info" for every other message of the handlers.

\* A variant whose filter step hands back the record array itself, so that
\* the sort reorders dataStore.conversations.
showConversations_SortInPlace(ds, st) ==
  LET kept == filterStep(ds.conversations, st.filters)
  IN { LET currentPageItems == pageSlice(order, st.currentPage, st.pageSize)
       IN [dataStore |-> [ds EXCEPT !.conversations =
                                      [k \in 1..Len(order) |-> ds.conversations[order[k]]],
                                    !.filteredConversations = Indices(order)],
           state |-> [st EXCEPT !.activeView = "conversations",
                                !.currentItems =
                                   storeItems(@, [idx \in 1..Len(currentPageItems) |->
                                                    st.currentPage * st.pageSize + idx - 1])],
           items |-> (IF Len(order) > st.pageSize THEN <<Row("page", JNull)>> ELSE <<>>)
                     \o [idx \in 1..Len(currentPageItems) |->
                           Row("conversation",
                               OrElse(Get(ds.conversations[currentPageItems[idx]], "name"),
                                      Get(ds.conversations[currentPageItems[idx]], "uuid")))],
           filterOutput |-> kept,
           status |-> "info"]
       : order \in sortFiltered(ds.conversations, kept, st.sort) }

\* views.showConversations
showConversations(ds, st) ==
  LET kept == filterStep(ds.conversations, st.filters)
  IN { LET totalItems == Len(order)
           pageStart == st.currentPage * st.pageSize
           currentPageItems == pageSlice(order, st.currentPage, st.pageSize)
       IN [dataStore |-> [ds EXCEPT !.filteredConversations = order],
           state |-> [st EXCEPT !.activeView = "conversations",
                                !.currentItems =
                                   storeItems(@, [idx \in 1..Len(currentPageItems) |->
                                                    pageStart + idx - 1])],
           items |-> (IF totalItems > st.pageSize THEN <<Row("page", JNull)>> ELSE <<>>)
                     \o [idx \in 1..Len(currentPageItems) |->
                           Row("conversation",
                               OrElse(Get(ds.conversations[currentPageItems[idx]], "name"),
                                      Get(ds.conversations[currentPageItems[idx]], "uuid")))],
           filterOutput |-> kept,
           status |-> "info"]
       : order \in sortFiltered(ds.conversations, kept, st.sort) }

\* views.showMessages
showMessages(ds, st, fo) ==
  IF ~Truthy(st.selectedConversation)
  THEN showConversations(ds, [st EXCEPT !.activeView = "messages"])
  ELSE LET currentMessages ==
             IF Get(st.selectedConversation, "chat_messages").t = "array"
             THEN Get(st.selectedConversation, "chat_messages").a ELSE <<>>
       IN { [dataStore |-> [ds EXCEPT !.currentMessages = currentMessages],
             state |-> [st EXCEPT !.activeView = "messages",
                                  !.currentItems =
                                     storeItems(@, [idx \in 1..Len(currentMessages) |-> idx - 1])],
             items |-> [idx \in 1..Len(currentMessages) |-> Row("message", JNumber(idx))],
             filterOutput |-> fo,
             status |-> "info"] }

\* views.showStatistics: the rows are text lines.
showStatistics(ds, st, fo) ==
  LET lines == 2 + Cardinality(DOMAIN st.stats.conversationsByMonth)
               + 3 + Cardinality(DOMAIN st.stats.messagesByRole)
               + 3 + 4 + 3 + 3 + (IF st.stats.totalConversations > 0 THEN 1 ELSE 0)
  IN { [dataStore |-> ds,
        state |-> [st EXCEPT !.activeView = "statistics"],
        items |-> [i \in 1..lines |-> Row("text", JNull)],
        filterOutput |-> fo,
        status |-> "info"] }

\* dataStore.clear()
clear(ds) ==
  [ds EXCEPT !.conversations = <<>>, !.conversationIndex = EmptyMap,
             !.filteredConversations = <<>>, !.currentMessages = <<>>]

\* dataStore.getConversation: a reference into conversations, or null.
getConversation(ds, index) ==
  IF index >= 0 /\ index < Len(ds.filteredConversations)
  THEN ds.conversations[ds.filteredConversations[index + 1]]
  ELSE JNull

\* dataStore.getMessage
getMessage(ds, index) ==
  IF index >= 0 /\ index < Len(ds.currentMessages) THEN ds.currentMessages[index + 1]
  ELSE JNull

(***************************************************************************)
(* conversation-explorer-v2.js: the files on disk and the handlers.        *)
(***************************************************************************)
Human == <<"h", "u", "m", "a", "n">>
Assistant == <<"a", "s", "s", "i", "s", "t", "a", "n", "t">>

MsgHi == JObject([sender |-> JString(Human), text |-> JString(<<"H", "i">>)])
MsgBlank ==
  JObject([sender |-> JString(Assistant), text |-> JString(<<>>),
           content |-> JArray(<<JObject([type |-> JString(<<"t">>),
                                         text |-> JString(<<" ">>)])>>)])

ConvA ==
  JObject([uuid |-> JString(<<"a", "1">>), name |-> JString(<<"A", "b">>),
           created_at |-> JString(IsoDate(2024, 1, 1)),
           chat_messages |-> JArray(<<MsgHi>>)])
ConvB ==
  JObject([uuid |-> JString(<<"b", "2">>), name |-> JString(<<>>),
           created_at |-> JString(IsoDate(2024, 3, 15)),
           chat_messages |-> JArray(<<MsgBlank, MsgHi>>)])
ConvC ==
  JObject([uuid |-> JString(<<"c", "3">>), name |-> JString(<<"C">>),
           created_at |-> JString(IsoDate(2024, 2, 10)),
           chat_messages |-> JArray(<<>>)])
ConvD == JObject([uuid |-> JString(<<"d", "4">>), name |-> JString(<<"h", "i">>)])
ConvE ==
  JObject([uuid |-> JString(<<"a", "1">>),
           created_at |-> JString(<<"s", "o", "o", "n">>),
           chat_messages |-> JArray(<<MsgBlank>>)])

\* What reading and parsing each path gives.  Every conversation and every
\* message of these files is an object, so reading conv.uuid and msg.sender
\* never raises.
FileSystem ==
  [main |-> [kind |-> "json", json |-> JArray(<<ConvB, ConvA, ConvD, ConvC>>)],
   odd |-> [kind |-> "json", json |-> JArray(<<ConvE, ConvA>>)],
   object |-> [kind |-> "json", json |-> JObject([conversations |-> JArray(<<ConvA>>)])],
   broken |-> [kind |-> "syntax error", json |-> JUndefined],
   missing |-> [kind |-> "missing", json |-> JUndefined]]

Paths == DOMAIN FileSystem
CommandTerms == { <<"h", "i">> }
CommandBounds ==
  { filterRangeBounds(IsoDate(2024, 1, 1), IsoDate(2024, 2, 10)),
    filterDayBounds(IsoDate(2024, 3, 14)) }

Init ==
  /\ dataStore = [conversations |-> <<>>, conversationIndex |-> EmptyMap,
                  filteredConversations |-> <<>>, currentMessages |-> <<>>]
  /\ state = [filePath |-> "", pageSize |-> PageRows, currentPage |-> 0,
              activeView |-> "welcome",
              filters |-> NoFilters, sort |-> DefaultSort, currentItems |-> <<>>,
              selectedConversation |-> JNull, selectedMessage |-> JNull,
              stats |-> EmptyStats]
  /\ ui = [items |-> [i \in 1..6 |-> Row("text", JNull)], status |-> "info"]
  /\ filterOutput = <<>>
  /\ IdleText /\ IdleSearch /\ IdleFilter /\ IdleSort /\ IdlePage /\ IdleAgg /\ IdleIndex /\ IdleOther

\* The handler's effect: one of the outcomes a view computed.
Show(outcomes) ==
  \E o \in outcomes :
    /\ dataStore' = o.dataStore
    /\ state' = o.state
    /\ ui' = [items |-> o.items, status |-> o.status]
    /\ filterOutput' = o.filterOutput
    /\ UNCHANGED <<textVars, searchVars, filterVars, sortVars, pageVars, aggVars, indexVars, otherVars>>

\* loadDataFile: "load <path>", or the path on the command line.
LoadFile(filePath, file) ==
  LET cleared == clear(dataStore)
      reset == [state EXCEPT !.stats = EmptyStats]
  IN IF file.kind = "json" /\ file.json.t = "array"
     THEN LET conversations == file.json.a
              ds == [cleared EXCEPT
                       !.conversations = conversations,
                       !.conversationIndex = buildIndex(EmptyMap, conversations, 0)]
              st == [reset EXCEPT
                       !.filePath = filePath,
                       !.stats = generateStatistics(
                                   [EmptyStats EXCEPT !.totalConversations = Len(conversations)],
                                   conversations),
                       !.currentPage = 0, !.filters = NoFilters, !.sort = DefaultSort]
          IN Show({[o EXCEPT !.status = "info"] : o \in showConversations(ds, st)})
     ELSE /\ dataStore' = cleared
          /\ state' = reset
          /\ ui' = [ui EXCEPT !.status = "error"]
          /\ filterOutput' = <<>>
          /\ UNCHANGED <<textVars, searchVars, filterVars, sortVars, pageVars, aggVars, indexVars, otherVars>>

LoadDataFile(filePath) == LoadFile(filePath, FileSystem[filePath])

Key1 ==
  Show(showConversations(dataStore,
         [state EXCEPT !.filters.hasMessages = FALSE, !.filters.hasEmptyMessages = FALSE,
                       !.currentPage = 0]))

Key2 ==
  Show(showConversations(dataStore,
         [state EXCEPT !.filters.hasMessages = TRUE, !.filters.hasEmptyMessages = FALSE,
                       !.currentPage = 0]))

Key3 == Show(showStatistics(dataStore, state, filterOutput))

KeyF ==
  Show(showConversations(dataStore,
         [state EXCEPT !.filters.hasEmptyMessages = TRUE, !.filters.hasMessages = TRUE,
                       !.currentPage = 0]))

\* Without a view to refresh, the handler changes the setting and the status.
Resort(st, status) ==
  IF st.activeView = "conversations" THEN Show(showConversations(dataStore, st))
  ELSE /\ state' = st
       /\ ui' = [ui EXCEPT !.status = status]
       /\ UNCHANGED <<dataStore, filterOutput, textVars, searchVars, filterVars, sortVars, pageVars, aggVars, indexVars, otherVars>>

KeyS ==
  Resort([state EXCEPT !.sort.field = IF @ = "date" THEN "size"
                                      ELSE IF @ = "size" THEN "messages" ELSE "date"],
         "info")

KeyR ==
  Resort([state EXCEPT !.sort.direction = IF @ = "asc" THEN "desc" ELSE "asc"],
         "info")

PageDown ==
  /\ state.activeView = "conversations"
  /\ state.currentPage < totalPages(Len(dataStore.filteredConversations), state.pageSize) - 1
  /\ Show(showConversations(dataStore, [state EXCEPT !.currentPage = @ + 1]))

PageUp ==
  /\ state.activeView = "conversations"
  /\ state.currentPage > 0
  /\ Show(showConversations(dataStore, [state EXCEPT !.currentPage = @ - 1]))

\* navigateBack
Backspace ==
  /\ state.activeView # "welcome"
  /\ IF state.activeView = "messages"
     THEN Show(showConversations(dataStore, [state EXCEPT !.selectedConversation = JNull]))
     ELSE Show(showConversations(dataStore, state))

CmdFilterClear == Show(showConversations(dataStore, [state EXCEPT !.filters = NoFilters]))

\* "filter <start> to <end>" or "filter <day>", bounds being the moments made
\* of the argument.
CmdFilterDate(bounds) ==
  Show(showConversations(dataStore,
         [state EXCEPT !.filters.dateStart = bounds.dateStart,
                       !.filters.dateEnd = bounds.dateEnd]))

CmdSearch(searchTerm) ==
  Show(showConversations(dataStore,
         [state EXCEPT !.filters.searchTerm = searchTerm, !.currentPage = 0]))

CmdClear ==
  Show(showConversations(dataStore, [state EXCEPT !.filters = NoFilters, !.currentPage = 0]))

\* handleSelection, with the list's cursor on row selectedIndex.
HandleSelection(selectedIndex) ==
  /\ selectedIndex < Len(state.currentItems)
  /\ LET actualIndex == state.currentItems[selectedIndex + 1]
     IN CASE state.activeView = "conversations" ->
               /\ Truthy(getConversation(dataStore, actualIndex))
               /\ Show(showMessages(dataStore,
                         [state EXCEPT !.selectedConversation =
                                          getConversation(dataStore, actualIndex)],
                         filterOutput))
          [] state.activeView = "messages" ->
               /\ Truthy(getMessage(dataStore, actualIndex))
               /\ state' = [state EXCEPT !.selectedMessage = getMessage(dataStore, actualIndex)]
               /\ UNCHANGED <<dataStore, ui, filterOutput, textVars, searchVars, filterVars,
                              sortVars, pageVars, aggVars, indexVars, otherVars>>
          [] state.activeView = "statistics" ->
               /\ ui' = [ui EXCEPT !.status = "info"]
               /\ UNCHANGED <<dataStore, state, filterOutput, textVars, searchVars,
                              filterVars, sortVars, pageVars, aggVars, indexVars, otherVars>>
          [] OTHER -> FALSE

\* The rows the cursor can be on.
Cursor == 0..(IF Len(ui.items) > 0 THEN Len(ui.items) - 1 ELSE 0)

Next ==
  \/ \E filePath \in Paths : LoadDataFile(filePath)
  \/ Key1
  \/ Key2
  \/ Key3
  \/ KeyF
  \/ KeyS
  \/ KeyR
  \/ PageDown
  \/ PageUp
  \/ Backspace
  \/ CmdFilterClear
  \/ \E bounds \in CommandBounds : CmdFilterDate(bounds)
  \/ \E term \in CommandTerms : CmdSearch(term)
  \/ CmdClear
  \/ \E selectedIndex \in Cursor : HandleSelection(selectedIndex)

Spec == Init /\ [][Next]_vars

(***************************************************************************)
(* Derived text as the specification words it: the direct text when it is  *)
(* a non-empty string, else the texts of the parts that have one, joined.  *)
(***************************************************************************)
PartHasText(part) ==
  part.t = "object" /\ "text" \in DOMAIN part.o /\ Truthy(part.o.text)

RECURSIVE PartsText(_, _)
PartsText(parts, sep) ==
  IF parts = <<>> THEN <<>>
  ELSE LET rest == PartsText(Tail(parts), sep)
       IN IF ~PartHasText(Head(parts)) THEN rest
          ELSE IF \A i \in 2..Len(parts) : ~PartHasText(parts[i])
               THEN JoinElement(Head(parts).o.text)
          ELSE JoinElement(Head(parts).o.text) \o sep \o rest

HasDirectText(m) == Get(m, "text").t = "string" /\ Get(m, "text").s # <<>>
HasContentParts(m) == Get(m, "content").t = "array"

DerivedText(m, sep) ==
  IF HasDirectText(m) THEN Get(m, "text").s
  ELSE IF HasContentParts(m) THEN PartsText(Get(m, "content").a, sep)
  ELSE <<>>

HelperPaths == {"v2Statistics", "v2EmptyCheck", "v2Export", "viewer"}

MsgEmptyTextWithContent ==
  JObject([text |-> JString(<<>>), content |-> JArray(<<JObject([text |-> JString(<<"a">>)])>>)])
MsgTextWithContent ==
  JObject([text |-> JString(<<"H", "i">>), content |-> JArray(<<JObject([text |-> JString(<<"a">>)])>>)])

AbsentOrEmpty(v) ==
  \/ v.t \in {"undefined", "null"}
  \/ v.t = "string" /\ v.s = <<>>
  \/ v.t = "array" /\ v.a = <<>>

\* C3: every text-extraction path returns a string without raising, for every
\* message shape, and returns "" when text and content are both absent or
\* empty.
C3_ExtractionNeverFails ==
  tPath # "none" =>
    /\ ~tResult.threw
    /\ tResult.v.t = "string"
    /\ (AbsentOrEmpty(Get(tMsg, "text")) /\ AbsentOrEmpty(Get(tMsg, "content"))
          => tResult.v = JString(<<>>))

\* C4: the statistics and empty-message paths join the parts' texts by a
\* single space and the export paths by a double newline; a part without text
\* adds nothing.  (Stated for messages without direct text whose parts are all
\* objects; null parts are C3's subject.)
C4_JoinPolicies ==
  /\ tMsg.t = "object" /\ ~HasDirectText(tMsg) /\ ~Truthy(Get(tMsg, "text"))
  /\ HasContentParts(tMsg)
  /\ \A i \in 1..Len(Get(tMsg, "content").a) : Get(tMsg, "content").a[i].t = "object"
  =>
    /\ tPath \in {"v2Statistics", "v2EmptyCheck", "v1Statistics", "v1EmptyCheck"}
         => tResult = Normal(JString(PartsText(Get(tMsg, "content").a, Space)))
    /\ tPath \in {"v2Export", "v1Export"}
         => tResult = Normal(JString(PartsText(Get(tMsg, "content").a, DoubleNewline)))

\* The creation instant the specification compares: the parsed created_at, or
\* the epoch when created_at is absent or does not parse.
CreationInstant(conv) ==
  IF Get(conv, "created_at").t = "string" /\ moment(Get(conv, "created_at")).valid
  THEN moment(Get(conv, "created_at")).t
  ELSE 0

BoundGiven(b) == ~b.isNull /\ b.m.valid

InDateRange(conv, dateStart, dateEnd) ==
  /\ BoundGiven(dateStart) => dateStart.m.t <= CreationInstant(conv)
  /\ BoundGiven(dateEnd) => CreationInstant(conv) <= dateEnd.m.t

\* C7: in both explorers the date filter keeps a conversation exactly when
\* start <= t <= end, bounds inclusive and each optional, t being the parsed
\* created_at, or the epoch when created_at is absent or unparsable.
C7_DateRangeInclusive ==
  fPath \in {"v2Date", "v1Date"} =>
    (fResult = "kept" <=> InDateRange(fConv, fBounds.dateStart, fBounds.dateEnd))

\* The messages of a conversation; none when it has no message sequence.
MessagesOf(conv) ==
  IF Get(conv, "chat_messages").t = "array" THEN Get(conv, "chat_messages").a ELSE <<>>

IsEmptyMessage(msg) == Len(Trim(DerivedText(msg, Space))) = 0

HasAnEmptyMessage(conv) ==
  \E i \in 1..Len(MessagesOf(conv)) : IsEmptyMessage(MessagesOf(conv)[i])

\* C8: the has-empty-messages predicate keeps a conversation exactly when one
\* of its messages has derived text of trimmed length 0; whitespace-only text
\* counts as empty, and a conversation without messages is not kept.
C8_HasEmptyMessages ==
  fPath \in {"v2Empty", "v1Empty"} =>
    (fResult = "kept" <=> HasAnEmptyMessage(fConv))

\* The sort key the specification gives a conversation: for the date, the
\* creation instant (epoch when absent or unparsable); for size and messages,
\* the explorer's number.
SpecSortKey(conv, field, prog) ==
  IF field = "date" THEN CreationInstant(conv)
  ELSE IF prog = "v2" THEN sortKey(conv, field).n
  ELSE v1SortKey(conv, field).n

PairwiseDistinctKeys ==
  \A i, j \in 1..Len(oList) :
    i # j => SpecSortKey(oList[i], oField, oProg) # SpecSortKey(oList[j], oField, oProg)

Reverse(q) == [i \in 1..Len(q) |-> q[Len(q) + 1 - i]]

\* C10: for a list whose sort keys are pairwise distinct, and each of the
\* fields date, size and messages, the ascending order reversed is the
\* descending order; the dates 2024-01-01, 2024-03-15, 2024-02-10 sorted by
\* date ascending come out as January, February, March.
C10_ReverseSymmetry ==
  oProg # "none" /\ PairwiseDistinctKeys =>
    /\ Reverse(oAsc) = oDesc
    /\ (oList = <<SortConvJan, SortConvMar, SortConvFeb>> /\ oField = "date"
          => oAsc = <<1, 3, 2>>)

FailingPaths ==
  { p \in Paths : FileSystem[p].kind # "json" \/ FileSystem[p].json.t # "array" }

\* C1: a load that fails (file missing, invalid JSON, a root that is not an
\* array) leaves the conversation array, the uuid index, the filtered view and
\* the statistics exactly as they were before the load was requested.
C1_FailedLoadKeepsData ==
  [][(\E p \in FailingPaths : LoadDataFile(p))
       => /\ dataStore'.conversations = dataStore.conversations
          /\ dataStore'.conversationIndex = dataStore.conversationIndex
          /\ dataStore'.filteredConversations = dataStore.filteredConversations
          /\ state'.stats = state.stats]_vars

\* The predicates of a conversation as the specification words them: the
\* creation instant within the date range, a non-empty message sequence, an
\* empty message, a string containing the search term.
SatisfiesDateRange(conv, filters) ==
  InDateRange(conv, filters.dateStart, filters.dateEnd)
SatisfiesHasMessages(conv) == Len(MessagesOf(conv)) > 0
SatisfiesSearch(conv, term) ==
  \E str \in ReachableStrings(conv) : Includes(ToLowerCase(str), ToLowerCase(term))

SatisfiesActivePredicates(conv, filters) ==
  /\ SatisfiesDateRange(conv, filters)
  /\ filters.hasMessages => SatisfiesHasMessages(conv)
  /\ filters.hasEmptyMessages => HasAnEmptyMessage(conv)
  /\ filters.searchTerm # <<>> => SatisfiesSearch(conv, filters.searchTerm)

\* C5: the filter step keeps a conversation exactly when it satisfies every
\* active predicate; a conversation without a message sequence has zero
\* messages; the kept conversations, before sorting, are a subsequence of
\* dataStore.conversations in the same relative order.
C5_FilterStepConjunctive ==
  /\ \A i \in 1..Len(dataStore.conversations) :
       (\E k \in 1..Len(filterOutput) : filterOutput[k] = i)
         <=> SatisfiesActivePredicates(dataStore.conversations[i], state.filters)
  /\ \A j, k \in 1..Len(filterOutput) : j < k => filterOutput[j] < filterOutput[k]
  /\ \A k \in 1..Len(filterOutput) : filterOutput[k] \in 1..Len(dataStore.conversations)

\* C6: with every predicate disabled the filter returns every loaded
\* conversation in input order, and an empty search term excludes no
\* conversation, whatever the other predicates are.
C6_DisabledPredicatesKeepAll ==
  /\ state.filters = NoFilters => filterOutput = Indices(dataStore.conversations)
  /\ state.filters.searchTerm = <<>> =>
       \A i \in 1..Len(dataStore.conversations) :
         /\ SatisfiesDateRange(dataStore.conversations[i], state.filters)
         /\ state.filters.hasMessages => SatisfiesHasMessages(dataStore.conversations[i])
         /\ state.filters.hasEmptyMessages => HasAnEmptyMessage(dataStore.conversations[i])
         => \E k \in 1..Len(filterOutput) : filterOutput[k] = i

C6_Witness ==
  /\ state.filters = NoFilters
  /\ state.sort.field = "size"
  /\ dataStore.conversations = <<ConvB, ConvA, ConvD, ConvC>>
  /\ filterOutput = <<1, 2, 3, 4>>
  /\ dataStore.filteredConversations # filterOutput

\* The position of input position x in an order.
PositionIn(order, x) == CHOOSE k \in 1..Len(order) : order[k] = x

KeepsInputOrderOfTies(order) ==
  \A i, j \in 1..Len(oList) :
    i < j /\ SpecSortKey(oList[i], oField, oProg) = SpecSortKey(oList[j], oField, oProg)
      => PositionIn(order, i) < PositionIn(order, j)

C12_DateKeyEpoch ==
  oProg # "none" /\ oField = "date" =>
    /\ \A k \in 1..(Len(oAsc) - 1) :
         SpecSortKey(oList[oAsc[k]], "date", oProg)
           <= SpecSortKey(oList[oAsc[k + 1]], "date", oProg)
    /\ \A k \in 1..(Len(oDesc) - 1) :
         SpecSortKey(oList[oDesc[k]], "date", oProg)
           >= SpecSortKey(oList[oDesc[k + 1]], "date", oProg)

\* C13: filtering, sorting, pagination and statistics never change the loaded
\* record array: dataStore.conversations, records included, changes only in a
\* step of loadDataFile (a failing one, which leaves it empty, or a load of
\* the file state.filePath then names), and a successful load leaves it equal
\* to the parsed array: the statistics pass and the rendering changed nothing.
C13_RecordsNeverChange ==
  [][dataStore'.conversations # dataStore.conversations =>
       \E p \in (IF dataStore'.conversations = <<>> THEN FailingPaths
                 ELSE {state'.filePath} \cap (Paths \ FailingPaths)) :
         /\ LoadDataFile(p)
         /\ p \notin FailingPaths => dataStore'.conversations = FileSystem[p].json.a]_vars

C13_Witness ==
  /\ dataStore.conversations = <<ConvB, ConvA, ConvD, ConvC>>
  /\ state.activeView = "conversations"
  /\ state.sort = [field |-> "messages", direction |-> "asc"]
  /\ state.currentPage = 1
  /\ dataStore.filteredConversations = <<3, 4, 2, 1>>
  /\ ui.items = <<Row("page", JNull), Row("conversation", JString(<<"A", "b">>)),
                  Row("conversation", JString(<<"b", "2">>))>>

(***************************************************************************)
(* Pagination of a list with the program's page size.  pPage is -1 until a *)
(* page has been rendered.                                                 *)
(***************************************************************************)
InitPage ==
  /\ \E n \in 0..MaxItems : pItems = [i \in 1..n |-> i]
  /\ pPage = -1 /\ pSlice = <<>>
  /\ IdleText /\ IdleSearch /\ IdleFilter /\ IdleSort /\ IdleProgram /\ IdleAgg /\ IdleIndex /\ IdleOther

\* views.showConversations with state.currentPage = page.
RenderPage ==
  /\ pPage = -1
  /\ \E page \in 0..MaxPageIndex :
       /\ pPage' = page
       /\ pSlice' = pageSlice(pItems, page, pageSize)
  /\ UNCHANGED <<pItems, textVars, searchVars, filterVars, sortVars, progVars, aggVars, indexVars, otherVars>>

\* The page-down key: the next page, when there is one.
RenderNextPage ==
  /\ pPage >= 0
  /\ pPage < totalPages(Len(pItems), pageSize) - 1
  /\ pPage' = pPage + 1
  /\ pSlice' = pageSlice(pItems, pPage + 1, pageSize)
  /\ UNCHANGED <<pItems, textVars, searchVars, filterVars, sortVars, progVars, aggVars, indexVars, otherVars>>

\* The page-up key.
RenderPreviousPage ==
  /\ pPage > 0
  /\ pPage' = pPage - 1
  /\ pSlice' = pageSlice(pItems, pPage - 1, pageSize)
  /\ UNCHANGED <<pItems, textVars, searchVars, filterVars, sortVars, progVars, aggVars, indexVars, otherVars>>

NextPage ==
  \/ RenderPage
  \/ RenderNextPage
  \/ RenderPreviousPage

SpecPage == InitPage /\ [][NextPage]_vars

\* ceil(n / size), 0 when n = 0.
PageCount(n, size) == IF n = 0 THEN 0 ELSE ((n - 1) \div size) + 1

RECURSIVE PagesUpTo(_, _, _)
PagesUpTo(list, k, size) ==
  IF k = 0 THEN <<>>
  ELSE PagesUpTo(list, k - 1, size) \o pageSlice(list, k - 1, size)

\* C14: with page size 100, pageCount = ceil(n / pageSize) (0 when n = 0); the
\* slices of the pages 0 .. pageCount-1 concatenated are the list; a page in
\* range holds its 100 items, the last one the remainder; 250 items give 3
\* pages and page 2 holds items 200..249; a page index at or beyond pageCount
\* gives an empty slice.
C14_Pagination ==
  pPage >= 0 =>
    LET n == Len(pItems)
        pageCount == PageCount(n, pageSize)
    IN /\ totalPages(n, pageSize) = pageCount
       /\ PagesUpTo(pItems, pageCount, pageSize) = pItems
       /\ pPage < pageCount - 1 => pSlice = [i \in 1..pageSize |-> pItems[pPage * pageSize + i]]
       /\ pPage = pageCount - 1 =>
            pSlice = [i \in 1..(n - pPage * pageSize) |-> pItems[pPage * pageSize + i]]
       /\ pPage >= pageCount => pSlice = <<>>
       /\ n = 250 /\ pPage = 2 => pageCount = 3 /\ pSlice = [i \in 1..50 |-> 200 + i]

C14_Witness ==
  /\ Len(pItems) = 250 /\ pPage = 2
  /\ Len(pSlice) = 50 /\ pSlice[1] = 201 /\ pSlice[50] = 250

\* C15: every operation that changes the filter settings resets currentPage
\* to 0 before the list is rendered, so the rendered page index lies in
\* [0, pageCount) whenever the filtered list is not empty.
C15_PageIndexInRange ==
  Len(dataStore.filteredConversations) > 0 =>
    /\ state.currentPage >= 0
    /\ state.currentPage < PageCount(Len(dataStore.filteredConversations), state.pageSize)

(***************************************************************************)
(* Aggregation: generateStatistics of conversation-explorer-v2.js and of   *)
(* conversation-explorer.js, and the statistics pass of the analysis       *)
(* script.  A run yields a completion: threw tells whether a TypeError     *)
(* ended the pass, s holds the statistics as the pass left them.           *)
(***************************************************************************)
\* moment.format('YYYY-MM-DD').
formatDay(a) ==
  IF a.valid
  THEN LET zz == a.t + 719468
           era == zz \div 146097
           doe == zz - era * 146097
           yoe == (doe - doe \div 1460 + doe \div 36524 - doe \div 146096) \div 365
           doy == doe - (365 * yoe + yoe \div 4 - yoe \div 100)
           mp == (5 * doy + 2) \div 153
           d == doy - (153 * mp + 2) \div 5 + 1
       IN formatMonth(a) \o <<"-">> \o Pad2(d)
  ELSE formatMonth(a)

\* The statistics object of conversation-explorer.js with the fields
\* generateStatistics resets.
v1EmptyStatistics ==
  [totalConversations |-> 0, totalMessages |-> 0, messagesByRole |-> EmptyMap,
   byMonth |-> EmptyMap, emptyConversations |-> 0, emptyMessages |-> 0,
   messagesByDay |-> EmptyMap,
   messageLengths |-> [empty |-> 0, short |-> 0, medium |-> 0, long |-> 0]]

\* map[key] = (map[key] || 0) + n
AddTo(map, key, n) == Put(map, key, (IF key \in DOMAIN map THEN map[key] ELSE 0) + n)

\* The body of conv.chat_messages.forEach in generateStatistics of
\* conversation-explorer.js.  msg.sender of a null message raises; the role is
\* counted before the text is extracted; trim exists on strings only.
v1CountMessage(c, msg) ==
  IF c.threw THEN c
  ELSE IF IsNullish(msg) THEN [c EXCEPT !.threw = TRUE]
  ELSE LET role == JoinElement(OrElse(Get(msg, "sender"), JString(Unknown)))
           s1 == [c.s EXCEPT !.messagesByRole = AddTo(@, role, 1)]
           messageText == inlineMessageText(msg, Space)
       IN IF messageText.threw \/ messageText.v.t # "string"
          THEN [threw |-> TRUE, s |-> s1]
          ELSE LET length == Len(Trim(messageText.v.s))
               IN [threw |-> FALSE,
                   s |-> IF length = 0
                         THEN [s1 EXCEPT !.emptyMessages = @ + 1,
                                         !.messageLengths.empty = @ + 1]
                         ELSE IF length <= 50
                         THEN [s1 EXCEPT !.messageLengths.short = @ + 1]
                         ELSE IF length <= 500
                         THEN [s1 EXCEPT !.messageLengths.medium = @ + 1]
                         ELSE [s1 EXCEPT !.messageLengths.long = @ + 1]]

RECURSIVE v1CountMessages(_, _)
v1CountMessages(c, msgs) ==
  IF msgs = <<>> THEN c
  ELSE v1CountMessages(v1CountMessage(c, Head(msgs)), Tail(msgs))

\* The body of conversationData.forEach in generateStatistics of
\* conversation-explorer.js; now is the day Date.now() falls on, and
\* moment(conv.created_at || Date.now()) is that day when created_at is falsy.
\* The chat_messages of the model's records is an array or absent.
v1CountConversation(c, conv, now) ==
  IF c.threw THEN c
  ELSE LET messages == Get(conv, "chat_messages")
       IN IF ~Truthy(messages) \/ Len(messages.a) = 0
          THEN [c EXCEPT !.s.emptyConversations = @ + 1]
          ELSE LET count == Len(messages.a)
                   date == IF Truthy(Get(conv, "created_at"))
                           THEN moment(Get(conv, "created_at"))
                           ELSE MomentAt(now)
                   month == formatMonth(date)
                   day == formatDay(date)
                   byMonth == IF month \in DOMAIN c.s.byMonth
                              THEN [c.s.byMonth EXCEPT ![month].conversations = @ + 1,
                                                       ![month].messages = @ + count]
                              ELSE Put(c.s.byMonth, month,
                                       [conversations |-> 1, messages |-> count])
                   s1 == [c.s EXCEPT !.totalMessages = @ + count,
                                     !.byMonth = byMonth,
                                     !.messagesByDay = AddTo(@, day, count)]
               IN v1CountMessages([threw |-> FALSE, s |-> s1], messages.a)

RECURSIVE v1CountConversations(_, _, _)
v1CountConversations(c, convs, now) ==
  IF convs = <<>> THEN c
  ELSE v1CountConversations(v1CountConversation(c, Head(convs), now), Tail(convs), now)

\* generateStatistics of conversation-explorer.js: every field but
\* totalConversations is reset, then one pass over conversationData.
v1GenerateStatistics(statistics, conversationData, now) ==
  v1CountConversations(
    [threw |-> FALSE,
     s |-> [v1EmptyStatistics EXCEPT !.totalConversations = statistics.totalConversations]],
    conversationData, now)

\* generateStatistics of conversation-explorer-v2.js as a completion; it
\* raises on a null message only, and no message of the model is null.
v2GenerateStatistics(stats, conversations) ==
  [threw |-> FALSE, s |-> generateStatistics(stats, conversations)]

\* getMonthKey of the analysis script.  new Date() of an unparsable string is
\* an Invalid Date and raises nothing, so the catch is never taken and the key
\* is made of two NaN.  A date-only ISO string is UTC midnight, which local
\* time sees localShift days away (-1 west of Greenwich, 0 elsewhere).
getMonthKey(dateStr, localShift) ==
  LET date == moment(dateStr)
  IN IF date.valid THEN formatMonth(MomentAt(date.t + localShift))
     ELSE <<"N", "a", "N", "-", "N", "a", "N">>

analysisEmptyStats ==
  [total |-> 0, bySender |-> EmptyMap, emptyMessages |-> 0,
   conversationsByMonth |-> EmptyMap]

\* The body of conv.chat_messages.forEach in the analysis script.
analysisCountMessage(c, msg) ==
  IF c.threw THEN c
  ELSE IF IsNullish(msg) THEN [c EXCEPT !.threw = TRUE]
  ELSE LET sender == JoinElement(OrElse(Get(msg, "sender"), JString(Unknown)))
           s1 == [c.s EXCEPT !.bySender = AddTo(@, sender, 1)]
           messageText == analysisText(msg)
       IN IF messageText.threw \/ messageText.v.t # "string"
          THEN [threw |-> TRUE, s |-> s1]
          ELSE [threw |-> FALSE,
                s |-> IF ~Truthy(messageText.v) \/ Len(Trim(messageText.v.s)) = 0
                      THEN [s1 EXCEPT !.emptyMessages = @ + 1]
                      ELSE s1]

RECURSIVE analysisCountMessages(_, _)
analysisCountMessages(c, msgs) ==
  IF msgs = <<>> THEN c
  ELSE analysisCountMessages(analysisCountMessage(c, Head(msgs)), Tail(msgs))

\* The body of conversationData.forEach in the analysis script, as far as the
\* sender, month and empty-message counts go.
analysisCountConversation(c, conv, localShift) ==
  IF c.threw THEN c
  ELSE LET created == Get(conv, "created_at")
           s1 == IF Truthy(created)
                 THEN [c.s EXCEPT !.conversationsByMonth =
                                     AddTo(@, getMonthKey(created, localShift), 1)]
                 ELSE c.s
           messages == Get(conv, "chat_messages")
       IN IF messages.t # "array" THEN [threw |-> FALSE, s |-> s1]
          ELSE analysisCountMessages(
                 [threw |-> FALSE, s |-> [s1 EXCEPT !.total = @ + Len(messages.a)]],
                 messages.a)

RECURSIVE analysisCountConversations(_, _, _)
analysisCountConversations(c, convs, localShift) ==
  IF convs = <<>> THEN c
  ELSE analysisCountConversations(analysisCountConversation(c, Head(convs), localShift),
                                  Tail(convs), localShift)

\* The statistics pass of the analysis script over a parsed array.
analysisStatistics(conversationData, localShift) ==
  analysisCountConversations([threw |-> FALSE, s |-> analysisEmptyStats],
                             conversationData, localShift)

(***************************************************************************)
(* Inputs of the aggregation: messages whose trimmed text has the lengths  *)
(* at which the buckets change, senders absent, null, empty, "unknown" and *)
(* named, creation dates valid, absent and unparsable.                     *)
(***************************************************************************)
Repeat(c, n) == [i \in 1..n |-> c]

AggMsgEmpty == JObject([sender |-> JString(Human), text |-> JString(<<>>)])
AggMsgLong == JObject([sender |-> JString(Assistant), text |-> JString(Repeat("a", 600))])
AggMsg50 == JObject([sender |-> JString(Unknown), text |-> JString(Repeat("a", 50))])
AggMsg51 == JObject([text |-> JString(Repeat("a", 51))])
AggMsg500 ==
  JObject([sender |-> JNull, text |-> JString(<<" ">> \o Repeat("a", 500) \o <<"\n">>)])
AggMsg501 == JObject([sender |-> JString(Human), text |-> JString(Repeat("a", 501))])
AggMsgEmptySender == JObject([sender |-> JString(<<>>), text |-> JString(<<"H", "i">>)])
AggMsgBlank == JObject([text |-> JString(<<" ", " ", " ">>)])
AggMsgParts ==
  JObject([sender |-> JString(Human),
           content |-> JArray(<<JObject([text |-> JString(Repeat("a", 25))]),
                                JObject([type |-> JString(<<"t">>)]),
                                JObject([text |-> JString(Repeat("a", 24))])>>)])
AggMsgOnePart ==
  JObject([sender |-> JString(Assistant),
           content |-> JArray(<<JObject([text |-> JString(<<"a">>)])>>)])
AggMsgNullPart == JObject([sender |-> JString(Human), content |-> JArray(<<JNull>>)])

AggConv(created, messages) ==
  JObject([created_at |-> JString(created), chat_messages |-> JArray(messages)])

AggConvEmpty == AggConv(IsoDate(2024, 1, 15), <<AggMsgEmpty>>)
AggConvLong == AggConv(IsoDate(2024, 1, 20), <<AggMsgLong>>)
AggConvShortMedium == AggConv(IsoDate(2024, 2, 3), <<AggMsg50, AggMsg51>>)
AggConvMediumLong == AggConv(IsoDate(2024, 2, 1), <<AggMsg500, AggMsg501>>)
AggConvBadDate == AggConv(<<"s", "o", "o", "n">>, <<AggMsgOnePart>>)
AggConvNoDate == JObject([chat_messages |-> JArray(<<AggMsgBlank>>)])
AggConvNoMessages == JObject([created_at |-> JString(IsoDate(2024, 1, 15))])
AggConvEmptySender == AggConv(IsoDate(2024, 1, 15), <<AggMsgEmptySender>>)
AggConvParts == AggConv(IsoDate(2024, 3, 9), <<AggMsgParts>>)
AggConvNullPart == AggConv(IsoDate(2024, 3, 9), <<AggMsgNullPart, AggMsgOnePart>>)

AggConversations ==
  { AggConvEmpty, AggConvLong, AggConvShortMedium, AggConvMediumLong, AggConvBadDate,
    AggConvNoDate, AggConvNoMessages, AggConvEmptySender, AggConvParts, AggConvNullPart }

\* The day the first run is made on: the last day of a month, so that a later
\* run falls in another month.
ClockStart == DaysFromCivil(2025, 1, 31)

InitAgg ==
  /\ aConvs \in SeqsUpTo(AggConversations, MaxAggConvs)
  /\ aProg = "none" /\ aStats = <<>> /\ aRuns = 0 /\ aNow = ClockStart
  /\ IdleText /\ IdleSearch /\ IdleFilter /\ IdleSort /\ IdleProgram /\ IdlePage /\ IdleIndex /\ IdleOther

\* loadDataFile sets totalConversations before the first run (832-834, 844).
AggregateV2 ==
  /\ aProg \in {"none", "v2"} /\ aRuns < MaxRuns
  /\ aProg' = "v2" /\ aRuns' = aRuns + 1
  /\ aStats' = v2GenerateStatistics(
                 IF aRuns = 0 THEN [EmptyStats EXCEPT !.totalConversations = Len(aConvs)]
                 ELSE aStats.s, aConvs)
  /\ UNCHANGED <<aConvs, aNow, textVars, searchVars, filterVars, sortVars, progVars, pageVars, indexVars, otherVars>>

\* loadData sets totalConversations before the first run (206, 209).
AggregateV1 ==
  /\ aProg \in {"none", "v1"} /\ aRuns < MaxRuns
  /\ aProg' = "v1" /\ aRuns' = aRuns + 1
  /\ aStats' = v1GenerateStatistics(
                 IF aRuns = 0 THEN [v1EmptyStatistics EXCEPT !.totalConversations = Len(aConvs)]
                 ELSE aStats.s, aConvs, aNow)
  /\ UNCHANGED <<aConvs, aNow, textVars, searchVars, filterVars, sortVars, progVars, pageVars, indexVars, otherVars>>

\* A run of the analysis script, in some time zone.
Analyze ==
  /\ aProg \in {"none", "analysis"} /\ aRuns < MaxRuns
  /\ aProg' = "analysis" /\ aRuns' = aRuns + 1
  /\ \E localShift \in {-1, 0} : aStats' = analysisStatistics(aConvs, localShift)
  /\ UNCHANGED <<aConvs, aNow, textVars, searchVars, filterVars, sortVars, progVars, pageVars, indexVars, otherVars>>

\* A day passes.
Tick ==
  /\ aNow < ClockStart + MaxRuns
  /\ aNow' = aNow + 1
  /\ UNCHANGED <<aConvs, aProg, aStats, aRuns, textVars, searchVars, filterVars, sortVars, progVars, pageVars, indexVars, otherVars>>

NextAgg ==
  \/ AggregateV2
  \/ AggregateV1
  \/ Analyze
  \/ Tick

SpecAgg == InitAgg /\ [][NextAgg]_vars

\* What the claims about the statistics speak of.
Completed == aProg # "none" /\ ~aStats.threw
SenderCounts == IF aProg = "analysis" THEN aStats.s.bySender ELSE aStats.s.messagesByRole
TotalMessages == IF aProg = "analysis" THEN aStats.s.total ELSE aStats.s.totalMessages
MonthConversations(key) ==
  CASE aProg = "v2" ->
         IF key \in DOMAIN aStats.s.conversationsByMonth
         THEN aStats.s.conversationsByMonth[key].conversations ELSE 0
    [] aProg = "v1" ->
         IF key \in DOMAIN aStats.s.byMonth
         THEN aStats.s.byMonth[key].conversations ELSE 0
    [] OTHER ->
         IF key \in DOMAIN aStats.s.conversationsByMonth
         THEN aStats.s.conversationsByMonth[key] ELSE 0

RECURSIVE AllMessages(_)
AllMessages(convs) ==
  IF convs = <<>> THEN <<>>
  ELSE (IF Get(Head(convs), "chat_messages").t = "array"
        THEN Get(Head(convs), "chat_messages").a ELSE <<>>) \o AllMessages(Tail(convs))

RECURSIVE SumOfMap(_)
SumOfMap(f) ==
  IF DOMAIN f = {} THEN 0
  ELSE LET k == CHOOSE x \in DOMAIN f : TRUE
       IN f[k] + SumOfMap([x \in DOMAIN f \ {k} |-> f[x]])

CountOfSender(s) == IF s \in DOMAIN SenderCounts THEN SenderCounts[s] ELSE 0
MessagesSentBy(s) ==
  Cardinality({i \in 1..Len(AllMessages(aConvs)) :
                 Get(AllMessages(aConvs)[i], "sender") = JString(s)})
MessagesWithoutSender ==
  Cardinality({i \in 1..Len(AllMessages(aConvs)) :
                 IsNullish(Get(AllMessages(aConvs)[i], "sender"))})

\* C16: after an aggregation the count of every sender string that occurs as
\* a present sender field is the number of messages with that sender; the
\* "unknown" entry counts the messages without a sender field plus those whose
\* sender is literally "unknown", and nothing else; the per-sender counts sum
\* to the total message count.
C16_SenderCounts ==
  Completed =>
    /\ \A i \in 1..Len(AllMessages(aConvs)) :
         LET sender == Get(AllMessages(aConvs)[i], "sender")
         IN sender.t = "string" /\ sender.s # Unknown
              => CountOfSender(sender.s) = MessagesSentBy(sender.s)
    /\ CountOfSender(Unknown) = MessagesWithoutSender + MessagesSentBy(Unknown)
    /\ SumOfMap(SenderCounts) = TotalMessages

InvalidDateKey == <<"i", "n", "v", "a", "l", "i", "d", "-", "d", "a", "t", "e">>

\* The month key the statistics contract gives a conversation.
ContractMonthKey(conv) ==
  LET date == moment(Get(conv, "created_at"))
  IN IF date.valid
     THEN Pad4(CivilFromDays(date.t).y) \o <<"-">> \o Pad2(CivilFromDays(date.t).m)
     ELSE InvalidDateKey

\* C17: in the per-month statistics every conversation is counted under the
\* YYYY-MM key of its creation date, and a conversation whose creation date
\* cannot be parsed is counted under the key invalid-date: the number of
\* conversations counted under a conversation's key is the number of
\* conversations with that key.
C17_MonthKeys ==
  Completed =>
    \A i \in 1..Len(aConvs) :
      MonthConversations(ContractMonthKey(aConvs[i]))
        = Cardinality({j \in 1..Len(aConvs) :
                         ContractMonthKey(aConvs[j]) = ContractMonthKey(aConvs[i])})

\* The bucket the statistics contract gives a message: by the length of its
\* trimmed derived text, the parts joined by one space.
ContractBucket(msg) ==
  LET L == Len(Trim(DerivedText(msg, Space)))
  IN IF L = 0 THEN "empty"
     ELSE IF L <= 50 THEN "short"
     ELSE IF L <= 500 THEN "medium"
     ELSE "long"

MessagesInBucket(b) ==
  Cardinality({i \in 1..Len(AllMessages(aConvs)) :
                 ContractBucket(AllMessages(aConvs)[i]) = b})

\* C18: after an aggregation every message is counted in the one length
\* bucket of its trimmed derived text (empty 0, short 1..50, medium 51..500,
\* long above 500), the four buckets sum to the total message count,
\* emptyMessages equals messageLengths.empty, and two conversations with one
\* message each, of lengths 0 and 600, give {empty: 1, short: 0, medium: 0,
\* long: 1} and emptyMessages = 1.
C18_LengthBuckets ==
  Completed /\ aProg \in {"v1", "v2"} =>
    /\ aStats.s.messageLengths = [empty |-> MessagesInBucket("empty"),
                                  short |-> MessagesInBucket("short"),
                                  medium |-> MessagesInBucket("medium"),
                                  long |-> MessagesInBucket("long")]
    /\ aStats.s.messageLengths.empty + aStats.s.messageLengths.short
         + aStats.s.messageLengths.medium + aStats.s.messageLengths.long
         = aStats.s.totalMessages
    /\ aStats.s.emptyMessages = aStats.s.messageLengths.empty
    /\ aConvs = <<AggConvEmpty, AggConvLong>> =>
         /\ aStats.s.messageLengths = [empty |-> 1, short |-> 0, medium |-> 0, long |-> 1]
         /\ aStats.s.emptyMessages = 1

\* C19: running generateStatistics again on the unchanged array, at any later
\* time and after any number of earlier runs, leaves the statistics as the
\* earlier run made them.
C19_Idempotent ==
  [][(aProg \in {"v1", "v2"} /\ aRuns >= 1 /\ aRuns' = aRuns + 1) => (aStats' = aStats)]_vars

(***************************************************************************)
(* The index: what loadDataFile stores for a parsed array (832-841).       *)
(***************************************************************************)
IndexConvFirst == JObject([uuid |-> JString(<<"a", "1">>), name |-> JString(<<"x">>)])
IndexConvAgain == JObject([uuid |-> JString(<<"a", "1">>), name |-> JString(<<"y">>)])
IndexConvOther == JObject([uuid |-> JString(<<"b", "2">>)])
IndexConvEmptyId == JObject([uuid |-> JString(<<>>), name |-> JString(<<"z">>)])
IndexConvNoId == JObject([name |-> JString(<<"n">>)])

IndexConversations ==
  { IndexConvFirst, IndexConvAgain, IndexConvOther, IndexConvEmptyId, IndexConvNoId }

InitIndex ==
  /\ xRecords = <<>>
  /\ xStore = [conversations |-> <<>>, conversationIndex |-> EmptyMap,
               filteredConversations |-> <<>>, currentMessages |-> <<>>]
  /\ IdleText /\ IdleSearch /\ IdleFilter /\ IdleSort /\ IdleProgram /\ IdlePage /\ IdleAgg /\ IdleOther

\* dataStore.clear(), then the parsed array is stored and indexed.
StoreConversations ==
  \E conversations \in SeqsUpTo(IndexConversations, MaxRecords) :
    /\ xRecords' = conversations
    /\ xStore' = [clear(xStore) EXCEPT
                    !.conversations = conversations,
                    !.conversationIndex = buildIndex(EmptyMap, conversations, 0)]
    /\ UNCHANGED <<textVars, searchVars, filterVars, sortVars, progVars, pageVars, aggVars, otherVars>>

NextIndex == StoreConversations

SpecIndex == InitIndex /\ [][NextIndex]_vars

\* The positions (from 0) at which a uuid occurs in the stored array.
PositionsOf(uuid) ==
  {k \in 0..(Len(xStore.conversations) - 1) :
     Get(xStore.conversations[k + 1], "uuid") = uuid}

\* C20: after a load the store holds the parsed array, duplicates included;
\* the index maps every uuid that occurs in the array to the position of its
\* last occurrence, and has no entry for a uuid that does not occur.
C20_IndexLastWins ==
  /\ xStore.conversations = xRecords
  /\ \A i \in 1..Len(xRecords) :
       LET uuid == Get(xRecords[i], "uuid")
       IN uuid.t = "string" =>
            /\ uuid \in DOMAIN xStore.conversationIndex
            /\ xStore.conversationIndex[uuid] \in PositionsOf(uuid)
            /\ \A k \in PositionsOf(uuid) : k <= xStore.conversationIndex[uuid]
  /\ \A uuid \in DOMAIN xStore.conversationIndex : PositionsOf(uuid) # {}

\* Whether a record is one of the array the store holds.
HeldByStore(record) ==
  \E i \in 1..Len(dataStore.conversations) : dataStore.conversations[i] = record

\* C21: once a load request has completed, with or without success, the view
\* state derives from the array the store holds: the filtered list refers to
\* its positions, the current message list and the selected conversation
\* belong to one of its records, and the statistics are those of that array.
C21_NoStaleViewState ==
  /\ \A k \in 1..Len(dataStore.filteredConversations) :
       dataStore.filteredConversations[k] \in 1..Len(dataStore.conversations)
  /\ dataStore.currentMessages # <<>> =>
       \E i \in 1..Len(dataStore.conversations) :
         Get(dataStore.conversations[i], "chat_messages") = JArray(dataStore.currentMessages)
  /\ state.selectedConversation # JNull => HeldByStore(state.selectedConversation)
  /\ state.stats = generateStatistics(
                     [EmptyStats EXCEPT !.totalConversations = Len(dataStore.conversations)],
                     dataStore.conversations)

\* What the summary line of a conversation shows of it.
SummaryTitle(conv) == OrElse(Get(conv, "name"), Get(conv, "uuid"))

\* C22: in the conversations view, Enter on a list row that renders the
\* summary line of a conversation opens that conversation: it becomes
\* selectedConversation and its messages are the current messages.
C22_EnterOpensRenderedRow ==
  [][state.activeView = "conversations" /\ state'.activeView = "messages" =>
       \A selectedIndex \in Cursor :
         (/\ HandleSelection(selectedIndex)
          /\ selectedIndex < Len(ui.items)
          /\ ui.items[selectedIndex + 1].kind = "conversation") =>
           /\ SummaryTitle(state'.selectedConversation) = ui.items[selectedIndex + 1].ref
           /\ JArray(dataStore'.currentMessages)
                = OrElse(Get(state'.selectedConversation, "chat_messages"), JArray(<<>>))]_vars

(***************************************************************************)
(* conversation-explorer.js: the list views, the selection and the export. *)
(*                                                                         *)
(* currentViewData is a list of references: to conversations (positions in *)
(* conversationData) or to the chat_messages of one conversation.  The     *)
(* search term stays empty.                                                *)
(***************************************************************************)
\* String.prototype.substring, for 0 <= start <= end.
substring(s, start, end) == SubSeq(s, start + 1, Min(end, Len(s)))

LabelConversations ==
  <<" ", "C", "o", "n", "v", "e", "r", "s", "a", "t", "i", "o", "n", "s", " ">>
LabelMessagesOnly ==
  <<" ", "M", "e", "s", "s", "a", "g", "e", "s", "O", "n", "l", "y", " ">>
LabelConversationDetail ==
  <<" ", "C", "o", "n", "v", "e", "r", "s", "a", "t", "i", "o", "n",
    "D", "e", "t", "a", "i", "l", " ">>
LabelMessages == <<" ", "M", "e", "s", "s", "a", "g", "e", "s", ":", " ">>
WordMessages == <<"M", "e", "s", "s", "a", "g", "e", "s">>
WordConversation == <<"C", "o", "n", "v", "e", "r", "s", "a", "t", "i", "o", "n">>
WordConversations == WordConversation \o <<"s">>
WordConversationsWith == WordConversations \o <<" ", "w", "i", "t", "h">>

\* The filter and sort of showConversations and showConversationsWithMessages.
v1ListView(g, label, withMessagesOnly) ==
  LET kept == SelectSeq(Indices(g.conversationData),
                LAMBDA i :
                  /\ withMessagesOnly =>
                       /\ Truthy(Get(g.conversationData[i], "chat_messages"))
                       /\ Len(Get(g.conversationData[i], "chat_messages").a) # 0
                  /\ v1DateFilterKeeps(g.conversationData[i], g.config.filterStartDate,
                                       g.config.filterEndDate, Today))
  IN { [g EXCEPT !.label = label,
                 !.currentViewData = [kind |-> "conversations", refs |-> order]]
       : order \in v1SortView(g.conversationData, kept, g.config.sortBy,
                              g.config.sortDirection) }

\* showConversationDetail, under the label updateView has just set.
v1ShowConversationDetail(g) ==
  LET view == g.currentViewData
      conversationIndex == g.config.currentPath[1]
      opens == /\ Len(g.config.currentPath) = 1
               /\ view.kind = "conversations"
               /\ conversationIndex < Len(view.refs)
               /\ Truthy(Get(g.conversationData[view.refs[conversationIndex + 1]],
                             "chat_messages"))
  IN IF opens
     THEN { [g EXCEPT !.label = LabelMessages,
                      !.currentViewData =
                         [kind |-> "messages", of |-> view.refs[conversationIndex + 1]]] }
     ELSE v1ListView(g, LabelConversations, FALSE)

\* updateView(mode)
v1UpdateView(g, mode) ==
  CASE mode = "conversations" -> v1ListView(g, LabelConversations, FALSE)
    [] mode = "messagesOnly" -> v1ListView(g, LabelMessagesOnly, TRUE)
    [] OTHER -> v1ShowConversationDetail([g EXCEPT !.label = LabelConversationDetail])

\* The view the s and r keys refresh.
v1CurrentView(label) ==
  IF Includes(label, WordMessages) THEN "conversationDetail"
  ELSE IF Includes(label, WordConversationsWith) THEN "messagesOnly"
  ELSE "conversations"

V1Files == { <<ConvB, ConvA, ConvD, ConvC>>, <<ConvE, ConvA>> }

\* After loadData(path) from the command line.
InitV1 ==
  /\ \E conversations \in V1Files :
       v1 \in v1UpdateView(
                [conversationData |-> conversations,
                 config |-> [currentPath |-> <<>>, filterStartDate |-> NullDate,
                             filterEndDate |-> NullDate, sortBy |-> "date",
                             sortDirection |-> "desc"],
                 currentViewData |-> [kind |-> "conversations", refs |-> <<>>],
                 label |-> LabelConversations],
                "conversations")
  /\ v1Exported = [path |-> <<>>, conversation |-> JNull]
  /\ IdleText /\ IdleSearch /\ IdleFilter /\ IdleSort /\ IdleProgram /\ IdlePage /\ IdleAgg
  /\ IdleIndex /\ IdleExport /\ IdleValidate /\ IdleViewer

V1Shows(outcomes) ==
  /\ v1' \in outcomes
  /\ UNCHANGED <<v1Exported, textVars, searchVars, filterVars, sortVars, progVars, pageVars,
                 aggVars, indexVars, exportVars, validateVars, viewerVars>>

V1Key1 == V1Shows(v1UpdateView([v1 EXCEPT !.config.currentPath = <<>>], "conversations"))

V1Key2 == V1Shows(v1UpdateView([v1 EXCEPT !.config.currentPath = <<>>], "messagesOnly"))

V1KeyS ==
  V1Shows(v1UpdateView(
            [v1 EXCEPT !.config.sortBy = IF @ = "date" THEN "size"
                                         ELSE IF @ = "size" THEN "messages" ELSE "date"],
            v1CurrentView(v1.label)))

V1KeyR ==
  V1Shows(v1UpdateView(
            [v1 EXCEPT !.config.sortDirection = IF @ = "asc" THEN "desc" ELSE "asc"],
            v1CurrentView(v1.label)))

V1Backspace ==
  /\ Len(v1.config.currentPath) > 0
  /\ V1Shows(v1UpdateView([v1 EXCEPT !.config.currentPath = <<>>], "conversations"))

V1CmdFilter(bounds) ==
  V1Shows(v1UpdateView(
            [v1 EXCEPT !.config.filterStartDate = bounds.dateStart,
                       !.config.filterEndDate = bounds.dateEnd],
            IF Includes(v1.label, WordConversations) THEN "conversations"
            ELSE "messagesOnly"))

\* explorer.on('select')
V1Select(selected) ==
  /\ (Includes(v1.label, WordConversations) \/ Includes(v1.label, WordConversation))
  /\ ~Includes(v1.label, WordMessages)
  /\ V1Shows(v1UpdateView([v1 EXCEPT !.config.currentPath = <<selected>>],
                          "conversationDetail"))

\* Key e, then the export command it proposes; exportMessages writes only a
\* conversation that has messages.
V1Export ==
  /\ Len(v1.config.currentPath) = 1 /\ Includes(v1.label, WordMessages)
  /\ v1.config.currentPath[1] < Len(v1.conversationData)
  /\ LET conversation == v1.conversationData[v1.config.currentPath[1] + 1]
     IN /\ Truthy(Get(conversation, "chat_messages"))
        /\ Len(Get(conversation, "chat_messages").a) # 0
        /\ v1Exported' = [path |-> substring(Get(conversation, "uuid").s, 0, 8)
                                     \o <<".", "m", "d">>,
                          conversation |-> conversation]
  /\ UNCHANGED <<v1, textVars, searchVars, filterVars, sortVars, progVars, pageVars,
                 aggVars, indexVars, exportVars, validateVars, viewerVars>>

V1Rows ==
  0..(IF v1.currentViewData.kind = "conversations" /\ Len(v1.currentViewData.refs) > 0
      THEN Len(v1.currentViewData.refs) - 1 ELSE 0)

NextV1 ==
  \/ V1Key1
  \/ V1Key2
  \/ V1KeyS
  \/ V1KeyR
  \/ V1Backspace
  \/ \E bounds \in CommandBounds \cup {noBounds} : V1CmdFilter(bounds)
  \/ \E selected \in V1Rows : V1Select(selected)
  \/ V1Export

SpecV1 == InitV1 /\ [][NextV1]_vars

\* C23: the export action of conversation-explorer.js writes the conversation
\* whose messages are displayed, the one opened from the filtered and sorted
\* list.
C23_ExportWritesDisplayed ==
  [][v1Exported' # v1Exported =>
       /\ v1.currentViewData.kind = "messages"
       /\ v1Exported'.conversation = v1.conversationData[v1.currentViewData.of]]_vars

\* ---------------------------------------------------------------------------
\* conversation-explorer-v2.js: the export command.

StatusSelectFirst == "Select a conversation first to export its messages"
StatusNoMessages == "No messages to export"
StatusExportError == "Error exporting messages"
StatusExported == "Exported messages"

ConversationPrefix == <<"C", "o", "n", "v", "e", "r", "s", "a", "t", "i", "o", "n", " ">>
FilePrefix == <<"c", "o", "n", "v", "e", "r", "s", "a", "t", "i", "o", "n", "_">>
MarkdownSuffix == <<".", "m", "d">>

\* A value inside a template literal.
TemplateValue(v) ==
  IF v.t = "string" THEN v.s
  ELSE IF v.t = "null" THEN <<"n", "u", "l", "l">>
  ELSE <<"u", "n", "d", "e", "f", "i", "n", "e", "d">>

\* A variant that falls back to the default name when the write fails.
exportConversation_WriteAnyway(conversation, outputPath, writable) ==
  IF \/ ~Truthy(conversation)
     \/ Get(conversation, "chat_messages").t # "array"
     \/ Len(Get(conversation, "chat_messages").a) = 0
  THEN [returned |-> FALSE, status |-> StatusNoMessages, writes |-> <<>>]
  ELSE [returned |-> TRUE, status |-> StatusExported,
        writes |-> (IF writable THEN <<>> ELSE <<[path |-> <<"o">>, content |-> <<>>]>>)
                   \o <<[path |-> FilePrefix \o MarkdownSuffix, content |-> <<>>]>>]

\* exportConversation: what it returns, the status it sets and the calls of
\* writeFileSync that complete.  writable tells whether writeFileSync succeeds.
exportConversation(conversation, outputPath, writable) ==
  IF \/ ~Truthy(conversation)
     \/ Get(conversation, "chat_messages").t # "array"
     \/ Len(Get(conversation, "chat_messages").a) = 0
  THEN [returned |-> FALSE, status |-> StatusNoMessages, writes |-> <<>>]
  ELSE LET uuid == Get(conversation, "uuid")
           title == IF Truthy(Get(conversation, "name"))
                    THEN TemplateValue(Get(conversation, "name"))
                    ELSE ConversationPrefix \o TemplateValue(uuid)
           output == [title |-> title,
                      sections |-> Len(Get(conversation, "chat_messages").a)]
           failed == [returned |-> FALSE, status |-> StatusExportError, writes |-> <<>>]
       IN IF ~Truthy(outputPath) /\ uuid.t # "string"
          THEN failed                      \* conversation.uuid.substring raises
          ELSE LET finalPath == IF Truthy(outputPath) THEN outputPath.s
                                ELSE FilePrefix \o substring(uuid.s, 0, 8) \o MarkdownSuffix
               IN IF ~writable THEN failed
                  ELSE [returned |-> TRUE, status |-> StatusExported,
                        writes |-> <<[path |-> finalPath, content |-> output]>>]

\* fs.writeFileSync replaces the file of that path.
WriteFiles(disk, writes) ==
  { f \in disk : \A k \in 1..Len(writes) : writes[k].path # f.path }
    \cup { writes[k] : k \in 1..Len(writes) }

\* handleCommand, "export [path]".
CmdExport(outputPath, writable) ==
  /\ IF state.activeView # "messages" \/ ~Truthy(state.selectedConversation)
     THEN /\ ui' = [ui EXCEPT !.status = StatusSelectFirst]
          /\ eLast' = [called |-> FALSE, writable |-> writable, returned |-> FALSE,
                       writes |-> 0, path |-> <<>>]
          /\ eDisk' = eDisk
     ELSE LET r == exportConversation(state.selectedConversation, outputPath, writable)
          IN /\ ui' = [ui EXCEPT !.status = r.status]
             /\ eLast' = [called |-> TRUE, writable |-> writable, returned |-> r.returned,
                          writes |-> Len(r.writes),
                          path |-> IF r.writes = <<>> THEN <<>> ELSE r.writes[1].path]
             /\ eDisk' = WriteFiles(eDisk, r.writes)
  /\ UNCHANGED <<dataStore, state, filterOutput, textVars, searchVars, filterVars, sortVars,
                 pageVars, aggVars, indexVars, v1Vars, validateVars, viewerVars>>

ExportConvLongId ==
  JObject([uuid |-> JString(<<"0", "1", "2", "3", "4", "5", "6", "7", "8", "9">>),
           created_at |-> JString(IsoDate(2024, 1, 1)),
           chat_messages |-> JArray(<<MsgHi>>)])
ExportConvNoId ==
  JObject([name |-> JString(<<"N">>), created_at |-> JString(IsoDate(2024, 1, 2)),
           chat_messages |-> JArray(<<MsgHi, MsgBlank>>)])

ExportFiles ==
  [long |-> [kind |-> "json", json |-> JArray(<<ExportConvLongId, ConvC>>)],
   noid |-> [kind |-> "json", json |-> JArray(<<ExportConvNoId, ConvD>>)],
   short |-> [kind |-> "json", json |-> JArray(<<ConvA>>)]]

OutputPaths == { JNull, JString(<<"o">>) }

NextExport ==
  \/ \E filePath \in DOMAIN ExportFiles : LoadFile(filePath, ExportFiles[filePath])
  \/ \E selectedIndex \in Cursor : HandleSelection(selectedIndex)
  \/ Backspace
  \/ \E outputPath \in OutputPaths, writable \in BOOLEAN : CmdExport(outputPath, writable)

SpecExport == Init /\ [][NextExport]_vars


ExportStatuses == { StatusSelectFirst, StatusNoMessages, StatusExportError, StatusExported }
FailureStatuses == { StatusSelectFirst, StatusNoMessages, StatusExportError }

\* The cases of an export that cannot be performed: nothing selected in the
\* messages view, no messages, or a write that fails.
NothingSelected == state.activeView # "messages" \/ ~Truthy(state.selectedConversation)
NoMessagesToExport ==
  \/ Get(state.selectedConversation, "chat_messages").t # "array"
  \/ Len(Get(state.selectedConversation, "chat_messages").a) = 0

\* C24: an export command that cannot be performed sets a failure status,
\* returns false from exportConversation, calls writeFileSync at most once
\* and leaves the disk as it was; no export command changes the loaded
\* records, the filters, the sort, the page, the view or the selection; and
\* an export without a path writes conversation_<first 8 characters of the
\* uuid>.md.
C24_FailedExportReported ==
  [][(eLast' # eLast \/ (ui'.status # ui.status /\ ui'.status \in ExportStatuses)) =>
       /\ dataStore' = dataStore /\ state' = state /\ filterOutput' = filterOutput
       /\ eLast'.writes <= 1
       /\ (NothingSelected \/ NoMessagesToExport \/ ~eLast'.writable \/ ~eLast'.returned) =>
            /\ ui'.status \in FailureStatuses
            /\ eLast'.returned = FALSE
            /\ eLast'.writes = 0
            /\ eDisk' = eDisk
       /\ eLast'.returned =>
            /\ ui'.status = StatusExported
            /\ \E f \in eDisk' : f.path = eLast'.path
            /\ (\A outputPath \in OutputPaths \ {JNull} : ~CmdExport(outputPath, TRUE)) =>
                 LET uuid == Get(state.selectedConversation, "uuid").s
                 IN eLast'.path = FilePrefix \o SubSeq(uuid, 1, Min(8, Len(uuid)))
                                    \o MarkdownSuffix
       /\ exportConversation(JNull, JNull, eLast'.writable).returned = FALSE]_vars

\* A write has failed after an earlier export of the same conversation under
\* its default name: the file is still there and nothing else was written.
C24_Witness ==
  /\ eLast.called /\ ~eLast.writable /\ ~eLast.returned
  /\ ui.status = StatusExportError
  /\ state.selectedConversation = ExportConvLongId
  /\ eDisk = { [path |-> FilePrefix \o <<"0", "1", "2", "3", "4", "5", "6", "7">>
                          \o MarkdownSuffix,
                content |-> [title |-> ConversationPrefix
                                         \o <<"0", "1", "2", "3", "4", "5", "6", "7", "8", "9">>,
                             sections |-> 1]] }

\* message count of the contract: the length of the message array, 0 without one.
ContractMessageCount(conv) ==
  IF Get(conv, "chat_messages").t = "array" THEN Len(Get(conv, "chat_messages").a) ELSE 0

C29_MonthsAccountForAll ==
  aProg = "v2" /\ ~aStats.threw =>
    LET byMonth == aStats.s.conversationsByMonth
    IN /\ aStats.s.totalConversations = Len(aConvs)
       /\ SumOfMap([m \in DOMAIN byMonth |-> byMonth[m].conversations])
            = aStats.s.totalConversations
       /\ SumOfMap([m \in DOMAIN byMonth |-> byMonth[m].messages]) = aStats.s.totalMessages

(***************************************************************************)
(* The validator (unnamed/part_001).                                       *)
(***************************************************************************)
NoError == [level |-> "none", about |-> "none", of |-> JUndefined]
ValidationOk == [threw |-> FALSE, valid |-> TRUE, error |-> NoError]
ValidationError(level, about, of) ==
  [threw |-> FALSE, valid |-> FALSE, error |-> [level |-> level, about |-> about, of |-> of]]
\* Reading a property of null or undefined raises a TypeError.
ValidationRaised == [threw |-> TRUE, valid |-> FALSE, error |-> NoError]

\* new Date(value): a string is parsed, a number is an instant.
newDate(v) ==
  CASE v.t = "string" -> ParseDate(v.s)
    [] v.t = "number" -> MomentAt(v.n)
    [] OTHER -> InvalidMoment

\* The four field checks made of a message, a reply and a nested reply.  An
\* ID error names the index of the element, the others name its id.
checkFields(level, element, index) ==
  IF IsNullish(element) THEN ValidationRaised
  ELSE IF ~Truthy(Get(element, "id")) \/ Get(element, "id").t # "string"
       THEN ValidationError(level, "invalid ID", JNumber(index))
  ELSE IF \/ ~Truthy(Get(element, "timestamp"))
          \/ ~newDate(Get(element, "timestamp")).valid
       THEN ValidationError(level, "invalid timestamp", Get(element, "id"))
  ELSE IF ~Truthy(Get(element, "sender")) \/ Get(element, "sender").t # "string"
       THEN ValidationError(level, "invalid sender", Get(element, "id"))
  ELSE IF Get(element, "content").t # "string"
       THEN ValidationError(level, "invalid content", Get(element, "id"))
  ELSE ValidationOk

RECURSIVE validateNestedReplies(_, _), NestedRepliesFrom(_, _, _)
validateNestedReplies(replies, parentContext) ==
  IF replies.t # "array"
  THEN ValidationError("Nested reply", "invalid replies format", parentContext)
  ELSE NestedRepliesFrom(replies.a, 1, parentContext)

\* The loop of validateNestedReplies from its i-th element on.
NestedRepliesFrom(replies, i, parentContext) ==
  IF i > Len(replies) THEN ValidationOk
  ELSE LET reply == replies[i]
           fields == checkFields("Nested reply", reply, i - 1)
       IN IF fields # ValidationOk THEN fields
          ELSE LET deeperValidation ==
                     IF Truthy(Get(reply, "replies"))
                     THEN validateNestedReplies(Get(reply, "replies"), Get(reply, "id"))
                     ELSE ValidationOk
               IN IF deeperValidation # ValidationOk THEN deeperValidation
                  ELSE NestedRepliesFrom(replies, i + 1, parentContext)

\* The inner loop of validateConversation over message.replies.
RECURSIVE RepliesFrom(_, _)
RepliesFrom(replies, j) ==
  IF j > Len(replies) THEN ValidationOk
  ELSE LET reply == replies[j]
           fields == checkFields("Reply", reply, j - 1)
       IN IF fields # ValidationOk THEN fields
          ELSE LET nestedReplyValidation ==
                     IF Truthy(Get(reply, "replies"))
                     THEN validateNestedReplies(Get(reply, "replies"), Get(reply, "id"))
                     ELSE ValidationOk
               IN IF nestedReplyValidation # ValidationOk THEN nestedReplyValidation
                  ELSE RepliesFrom(replies, j + 1)

\* The outer loop of validateConversation over conversation.messages.
RECURSIVE MessagesFrom(_, _)
MessagesFrom(messages, i) ==
  IF i > Len(messages) THEN ValidationOk
  ELSE LET message == messages[i]
           fields == checkFields("Message", message, i - 1)
           replies == Get(message, "replies")
       IN IF fields # ValidationOk THEN fields
          ELSE IF Truthy(replies) /\ replies.t # "array"
               THEN ValidationError("Message", "invalid replies format", Get(message, "id"))
          ELSE LET inner == IF Truthy(replies) /\ Len(replies.a) > 0
                            THEN RepliesFrom(replies.a, 1) ELSE ValidationOk
               IN IF inner # ValidationOk THEN inner
                  ELSE MessagesFrom(messages, i + 1)

validateConversation(conversation) ==
  IF IsNullish(conversation) THEN ValidationRaised
  ELSE IF ~Truthy(Get(conversation, "id")) \/ Get(conversation, "id").t # "string"
       THEN ValidationError("Conversation", "missing valid ID", JUndefined)
  ELSE IF ~Truthy(Get(conversation, "title")) \/ Get(conversation, "title").t # "string"
       THEN ValidationError("Conversation", "missing valid title", Get(conversation, "id"))
  ELSE IF Get(conversation, "messages").t # "array"
       THEN ValidationError("Conversation", "missing messages array", Get(conversation, "id"))
  ELSE MessagesFrom(Get(conversation, "messages").a, 1)

\* What validateConversationsFile returns: conversationIndex is -1 when the
\* result has no such field.
FileResult(valid, error, conversationIndex) ==
  [valid |-> valid, error |-> error, conversationIndex |-> conversationIndex]
FileError(about) == [level |-> "File", about |-> about, of |-> JUndefined]

\* The loop of validateConversationsFile from the i-th conversation on.
RECURSIVE ConversationsFrom(_, _)
ConversationsFrom(conversations, i) ==
  IF i > Len(conversations) THEN FileResult(TRUE, NoError, -1)
  ELSE LET conversationValidation == validateConversation(conversations[i])
       IN IF conversationValidation.threw
          THEN FileResult(FALSE, FileError("Failed to read or parse file"), -1)
          ELSE IF ~conversationValidation.valid
               THEN FileResult(FALSE, conversationValidation.error, i - 1)
          ELSE ConversationsFrom(conversations, i + 1)

validateConversationsFile(file) ==
  IF file.kind = "missing"
  THEN FileResult(FALSE, FileError("Failed to read or parse file"), -1)
  ELSE IF file.kind = "syntax error"
       THEN FileResult(FALSE, FileError("Invalid JSON syntax in file"), -1)
  ELSE IF IsNullish(file.json)
       THEN FileResult(FALSE, FileError("Failed to read or parse file"), -1)
  ELSE IF \/ ~Truthy(Get(file.json, "conversations"))
          \/ Get(file.json, "conversations").t # "array"
       THEN FileResult(FALSE, FileError("Missing or invalid conversations array"), -1)
  ELSE ConversationsFrom(Get(file.json, "conversations").a, 1)

\* Validated inputs.  The element of a level has the id "e<level>", its elder
\* sibling the id "k<level>".
ElementFields(id) ==
  [id |-> JString(id), timestamp |-> JString(IsoDate(2024, 1, 1)),
   sender |-> JString(<<"s">>), content |-> JString(<<"c">>)]
GoodElement(id) == JObject(ElementFields(id))
Without(fields, key) == JObject([k \in DOMAIN fields \ {key} |-> fields[k]])
WithField(fields, key, value) ==
  JObject([k \in DOMAIN fields \cup {key} |-> IF k = key THEN value ELSE fields[k]])
ElementVariants(id) ==
  LET fields == ElementFields(id)
  IN { JNull, GoodElement(id),
       Without(fields, "id"), WithField(fields, "id", JString(<<>>)),
       WithField(fields, "id", JNumber(7)),
       Without(fields, "timestamp"), WithField(fields, "timestamp", JString(<<"s", "o", "o", "n">>)),
       WithField(fields, "timestamp", JNumber(86400000)),
       Without(fields, "sender"), WithField(fields, "sender", JString(<<>>)),
       Without(fields, "content"), WithField(fields, "content", JString(<<>>)),
       WithField(fields, "content", JNull),
       WithField(fields, "replies", JString(<<"x">>)),
       WithField(fields, "replies", JNumber(0)),
       WithField(fields, "replies", JArray(<<>>)) }

RECURSIVE Elements(_)
Elements(depth) ==
  LET own == <<"e", Digits[depth + 1]>>
      elder == <<"k", Digits[depth]>>
      fields == ElementFields(own)
  IN IF depth = 0 THEN ElementVariants(own)
     ELSE ElementVariants(own)
            \cup { WithField(fields, "replies", JArray(<<e>>)) : e \in Elements(depth - 1) }
            \cup { WithField(fields, "replies", JArray(<<GoodElement(elder), e>>)) :
                     e \in ElementVariants(<<"e", Digits[depth]>>) }

MessageLists ==
  {<<>>} \cup { <<m>> : m \in Elements(MaxReplyDepth) }
         \cup { <<GoodElement(<<"k">>), m>> : m \in Elements(MaxReplyDepth) }

ValidatedConversation(id, messages) ==
  JObject([id |-> JString(id), title |-> JString(<<"t">>), messages |-> JArray(messages)])
ValidatedConversations ==
  { JNull, JNumber(5),
    JObject([title |-> JString(<<"t">>), messages |-> JArray(<<>>)]),
    JObject([id |-> JString(<<>>), title |-> JString(<<"t">>), messages |-> JArray(<<>>)]),
    JObject([id |-> JString(<<"c">>), messages |-> JArray(<<>>)]),
    JObject([id |-> JString(<<"c">>), title |-> JNumber(1), messages |-> JArray(<<>>)]),
    JObject([id |-> JString(<<"c">>), title |-> JString(<<"t">>)]),
    JObject([id |-> JString(<<"c">>), title |-> JString(<<"t">>),
             messages |-> JString(<<"m">>)]) }
    \cup { ValidatedConversation(<<"c">>, messages) : messages \in MessageLists }

ValidatedFiles ==
  { [kind |-> "missing", json |-> JUndefined], [kind |-> "syntax error", json |-> JUndefined],
    [kind |-> "json", json |-> JNull], [kind |-> "json", json |-> JArray(<<>>)],
    [kind |-> "json", json |-> JObject([conversations |-> JString(<<"x">>)])],
    [kind |-> "json", json |-> JObject([conversations |-> JArray(<<>>)])] }
    \cup { [kind |-> "json", json |-> JObject([conversations |-> JArray(<<c>>)])] :
             c \in ValidatedConversations }
    \cup { [kind |-> "json",
            json |-> JObject([conversations |->
                                JArray(<<ValidatedConversation(<<"g">>, <<>>), c>>)])] :
             c \in ValidatedConversations }
    \cup { [kind |-> "json",
            json |-> JObject([conversations |->
                                JArray(<<c, JObject([id |-> JString(<<"b">>)])>>)])] :
             c \in ValidatedConversations }

NotValidated == FileResult(FALSE, NoError, -2)

InitValidate ==
  /\ vFile \in ValidatedFiles
  /\ vResult = NotValidated
  /\ IdleText /\ IdleSearch /\ IdleFilter /\ IdleSort /\ IdleProgram /\ IdlePage /\ IdleAgg
  /\ IdleIndex /\ IdleV1 /\ IdleExport /\ IdleViewer

Validate ==
  /\ vResult' = validateConversationsFile(vFile)
  /\ UNCHANGED <<vFile, textVars, searchVars, filterVars, sortVars, progVars, pageVars,
                 aggVars, indexVars, v1Vars, exportVars, viewerVars>>

NextValidate == Validate

SpecValidate == InitValidate /\ [][NextValidate]_vars

\* The requirements of the contract on one element and on what is below it.
NonEmptyString(v) == v.t = "string" /\ v.s # <<>>
OwnFieldsOk(element) ==
  /\ NonEmptyString(Get(element, "id"))
  /\ Truthy(Get(element, "timestamp")) /\ newDate(Get(element, "timestamp")).valid
  /\ NonEmptyString(Get(element, "sender"))
  /\ Get(element, "content").t = "string"
  /\ (~Truthy(Get(element, "replies")) \/ Get(element, "replies").t = "array")

RECURSIVE ElementOk(_)
ElementOk(element) ==
  /\ OwnFieldsOk(element)
  /\ Get(element, "replies").t = "array" =>
       \A i \in 1..Len(Get(element, "replies").a) : ElementOk(Get(element, "replies").a[i])

ConversationFieldsOk(conversation) ==
  /\ NonEmptyString(Get(conversation, "id"))
  /\ NonEmptyString(Get(conversation, "title"))
  /\ Get(conversation, "messages").t = "array"
ConversationOk(conversation) ==
  /\ ConversationFieldsOk(conversation)
  /\ \A i \in 1..Len(Get(conversation, "messages").a) :
       ElementOk(Get(conversation, "messages").a[i])

HasConversations ==
  vFile.kind = "json" /\ Get(vFile.json, "conversations").t = "array"
ValidatedList == Get(vFile.json, "conversations").a
ContractValid ==
  HasConversations /\ \A i \in 1..Len(ValidatedList) : ConversationOk(ValidatedList[i])
FirstInvalidConversation ==
  CHOOSE i \in 1..Len(ValidatedList) :
    /\ ~ConversationOk(ValidatedList[i])
    /\ \A j \in 1..(i - 1) : ConversationOk(ValidatedList[j])

\* What an error names of the element it is about: its id, or its index when
\* the id is the failing field.
Named(element, index) ==
  IF NonEmptyString(Get(element, "id")) THEN Get(element, "id") ELSE JNumber(index)

\* The first failing element below a list of elements, depth first.
RECURSIVE FirstFailing(_, _)
FirstFailing(elements, i) ==
  IF i > Len(elements) THEN JUndefined
  ELSE LET element == elements[i]
           below == IF Get(element, "replies").t = "array"
                    THEN FirstFailing(Get(element, "replies").a, 1) ELSE JUndefined
       IN IF ~OwnFieldsOk(element) THEN Named(element, i - 1)
          ELSE IF below # JUndefined THEN below
          ELSE FirstFailing(elements, i + 1)

FirstFailingOf(conversation) ==
  IF ~NonEmptyString(Get(conversation, "id")) THEN JUndefined
  ELSE IF ~ConversationFieldsOk(conversation) THEN Get(conversation, "id")
  ELSE FirstFailing(Get(conversation, "messages").a, 1)

\* C30: validateConversationsFile answers valid exactly for a root with a
\* conversations array whose conversations, messages and replies at every
\* depth meet the field requirements; otherwise the error is that of the
\* first failing element in depth-first order and conversationIndex is the
\* index of the first invalid conversation.
C30_ValidatorContract ==
  vResult # NotValidated =>
    /\ vResult.valid <=> ContractValid
    /\ (HasConversations /\ ~ContractValid) =>
         /\ vResult.conversationIndex = FirstInvalidConversation - 1
         /\ vResult.error.of = FirstFailingOf(ValidatedList[FirstInvalidConversation])

(***************************************************************************)
(* The single-conversation viewer (unnamed/part_000).                      *)
(***************************************************************************)
hasNonEmptyMessages(conversation) ==
  IF ~Truthy(conversation) \/ Get(conversation, "chat_messages").t # "array" THEN FALSE
  ELSE \E i \in 1..Len(Get(conversation, "chat_messages").a) :
         LET text == viewerGetMessageText(Get(conversation, "chat_messages").a[i])
         IN Truthy(text) /\ Len(Trim(text.s)) > 0

\* showMessage: an index out of range changes nothing.
showMessage(s, index) ==
  IF index < 0 \/ index >= Len(s.messages) THEN s
  ELSE [s EXCEPT !.currentMessageIndex = index]

\* loadConversation(index), index counting from 0 in the filtered list.
loadConversation(s, index) ==
  IF index < 0 \/ index >= Len(s.filteredConversations) THEN s
  ELSE LET conversation == s.filteredConversations[index + 1]
           s1 == [s EXCEPT !.currentConversationIndex = index,
                           !.conversation = conversation]
           s2 == IF Truthy(conversation) /\ Get(conversation, "chat_messages").t = "array"
                 THEN [s1 EXCEPT !.messages = Get(conversation, "chat_messages").a,
                                 !.currentMessageIndex = 0]
                 ELSE [s1 EXCEPT !.messages = <<>>]
       IN IF Len(s2.messages) > 0 THEN showMessage(s2, s2.currentMessageIndex) ELSE s2

\* applyFilters: the state it leaves and the value it returns.
applyFilters(s) ==
  LET filtered == IF s.hideEmptyConversations
                  THEN SelectSeq(s.allConversations, hasNonEmptyMessages)
                  ELSE s.allConversations
      s1 == [s EXCEPT !.filteredConversations = filtered]
  IN IF Len(filtered) = 0
     THEN [returned |-> FALSE,
           s |-> [s1 EXCEPT !.currentConversationIndex = -1, !.conversation = JNull,
                            !.messages = <<>>]]
     ELSE IF s1.currentConversationIndex >= Len(filtered)
          THEN [returned |-> TRUE,
                s |-> loadConversation([s1 EXCEPT !.currentConversationIndex = Len(filtered) - 1],
                                       Len(filtered) - 1)]
     ELSE IF s1.currentConversationIndex < 0
          THEN [returned |-> TRUE,
                s |-> loadConversation([s1 EXCEPT !.currentConversationIndex = 0], 0)]
     ELSE IF Truthy(s1.conversation)
          THEN LET currentUuid == Get(s1.conversation, "uuid")
                   stillExists == \E k \in 1..Len(filtered) :
                                    Get(filtered[k], "uuid") = currentUuid
               IN [returned |-> TRUE,
                   s |-> IF ~stillExists
                         THEN loadConversation([s1 EXCEPT !.currentConversationIndex = 0], 0)
                         ELSE s1]
     ELSE [returned |-> TRUE, s |-> s1]

\* loadConversationFile on what reading and parsing the path gives.
loadConversationFile(s, file) ==
  IF file.kind # "json" THEN s
  ELSE IF file.json.t = "array"
       THEN LET applied == applyFilters([s EXCEPT !.allConversations = file.json.a])
            IN IF /\ applied.returned
                  /\ applied.s.currentConversationIndex < 0
                  /\ Len(applied.s.filteredConversations) > 0
               THEN loadConversation(applied.s, 0)
               ELSE applied.s
  ELSE LET applied == applyFilters([s EXCEPT !.allConversations = <<file.json>>])
       IN IF applied.returned THEN loadConversation(applied.s, 0) ELSE applied.s

searchInConversation(s, term) ==
  IF Len(term) = 0 THEN [s EXCEPT !.searchResults = <<>>, !.searchMode = FALSE]
  ELSE LET found == SelectSeq([i \in 1..Len(s.messages) |-> i - 1],
                              LAMBDA idx :
                                Includes(ToLowerCase(viewerGetMessageText(s.messages[idx + 1]).s),
                                         ToLowerCase(term)))
           s1 == [s EXCEPT !.searchTerm = term, !.searchResults = found, !.searchIndex = 0]
       IN IF Len(found) > 0
          THEN showMessage([s1 EXCEPT !.searchMode = TRUE], found[1])
          ELSE [s1 EXCEPT !.searchMode = FALSE]

navigateSearchResults(s, forward) ==
  IF ~s.searchMode \/ Len(s.searchResults) = 0 THEN s
  ELSE LET n == Len(s.searchResults)
           searchIndex == IF forward THEN (s.searchIndex + 1) % n
                          ELSE (s.searchIndex - 1 + n) % n
       IN showMessage([s EXCEPT !.searchIndex = searchIndex], s.searchResults[searchIndex + 1])

switchConversation(s, direction) ==
  IF Len(s.filteredConversations) <= 1 THEN s
  ELSE LET newIndex == s.currentConversationIndex + direction
       IN loadConversation(s, IF newIndex < 0 THEN Len(s.filteredConversations) - 1
                              ELSE IF newIndex >= Len(s.filteredConversations) THEN 0
                              ELSE newIndex)

ViewerMsgHigh == JObject([sender |-> JString(Assistant), text |-> JString(<<"h", "i", "g", "h">>)])
ViewerConvA ==
  JObject([uuid |-> JString(<<"a", "1">>), name |-> JString(<<"A">>),
           chat_messages |-> JArray(<<MsgHi, MsgBlank, ViewerMsgHigh>>)])
ViewerConvB ==
  JObject([uuid |-> JString(<<"b", "2">>), name |-> JString(<<"B">>),
           chat_messages |-> JArray(<<MsgHi>>)])
\* The conversation a1 as a later file holds it.
ViewerConvLaterA ==
  JObject([uuid |-> JString(<<"a", "1">>), name |-> JString(<<"A">>),
           chat_messages |-> JArray(<<MsgBlank, MsgHi>>)])

ViewerFiles ==
  [first |-> [kind |-> "json", json |-> JArray(<<ConvC, ViewerConvA, ViewerConvB>>)],
   second |-> [kind |-> "json", json |-> JArray(<<ViewerConvLaterA, ConvD>>)],
   single |-> [kind |-> "json", json |-> ViewerConvB],
   empties |-> [kind |-> "json", json |-> JArray(<<ConvC, ConvD>>)],
   none |-> [kind |-> "json", json |-> JArray(<<>>)],
   broken |-> [kind |-> "syntax error", json |-> JUndefined]]

SearchInputs == { <<>>, <<"h", "i">>, <<"H", "I", "G", "H">>, <<"z">> }
GotoNumbers == 0..4

InitViewer ==
  /\ viewer = [allConversations |-> <<>>, filteredConversations |-> <<>>,
               currentConversationIndex |-> 0, conversation |-> JNull, messages |-> <<>>,
               currentMessageIndex |-> 0, searchMode |-> FALSE, searchTerm |-> <<>>,
               searchResults |-> <<>>, searchIndex |-> 0, hideEmptyConversations |-> FALSE]
  /\ IdleText /\ IdleSearch /\ IdleFilter /\ IdleSort /\ IdleProgram /\ IdlePage /\ IdleAgg
  /\ IdleIndex /\ IdleV1 /\ IdleExport /\ IdleValidate

ViewerStep(s) ==
  /\ viewer' = s
  /\ UNCHANGED <<textVars, searchVars, filterVars, sortVars, progVars, pageVars, aggVars,
                 indexVars, v1Vars, exportVars, validateVars>>

\* "load <path>", or the path on the command line.
ViewerLoad(filePath) == ViewerStep(loadConversationFile(viewer, ViewerFiles[filePath]))

\* Key h: toggleEmptyConversationsFilter.
ViewerKeyH ==
  ViewerStep(applyFilters([viewer EXCEPT !.hideEmptyConversations = ~@]).s)

\* "filter empty=true" and "filter empty=false".
ViewerCmdFilter(value) ==
  ViewerStep(applyFilters([viewer EXCEPT !.hideEmptyConversations = value]).s)

\* The Apply button of the filter dialog, with its checkbox checked or not.
ViewerFilterDialog(checked) ==
  ViewerStep(applyFilters([viewer EXCEPT !.hideEmptyConversations = checked]).s)

\* Keys [ and ].
ViewerSwitch(direction) == ViewerStep(switchConversation(viewer, direction))

\* Key c shows the switcher when there is more than one conversation; a
\* selection in it loads the conversation of that row.
ViewerSwitcherSelect(index) ==
  /\ Len(viewer.filteredConversations) > 1
  /\ index < Len(viewer.filteredConversations)
  /\ ViewerStep(loadConversation(viewer, index))

\* "goto <number>"
ViewerGoto(number) == ViewerStep(loadConversation(viewer, number - 1))

\* Key /, a term, Enter.
ViewerSearch(term) == ViewerStep(searchInConversation(viewer, term))

\* Key n is bound to both the next message and the next search result.
ViewerKeyN ==
  LET moved == IF viewer.currentMessageIndex < Len(viewer.messages) - 1
               THEN showMessage(viewer, viewer.currentMessageIndex + 1) ELSE viewer
  IN ViewerStep(IF moved.searchMode THEN navigateSearchResults(moved, TRUE) ELSE moved)

ViewerKeyShiftN ==
  /\ viewer.searchMode
  /\ ViewerStep(navigateSearchResults(viewer, FALSE))

ViewerKeyUp ==
  /\ viewer.currentMessageIndex > 0
  /\ ViewerStep(showMessage(viewer, viewer.currentMessageIndex - 1))

ViewerKeyDown ==
  /\ viewer.currentMessageIndex < Len(viewer.messages) - 1
  /\ ViewerStep(showMessage(viewer, viewer.currentMessageIndex + 1))

\* Escape in search mode clears the search.
ViewerEscape ==
  /\ viewer.searchMode
  /\ ViewerStep([viewer EXCEPT !.searchMode = FALSE, !.searchResults = <<>>])

NextViewer ==
  \/ \E filePath \in DOMAIN ViewerFiles : ViewerLoad(filePath)
  \/ ViewerKeyH
  \/ \E value \in BOOLEAN : ViewerCmdFilter(value)
  \/ \E checked \in BOOLEAN : ViewerFilterDialog(checked)
  \/ \E direction \in {-1, 1} : ViewerSwitch(direction)
  \/ \E index \in 0..(MaxRecords - 1) : ViewerSwitcherSelect(index)
  \/ \E number \in GotoNumbers : ViewerGoto(number)
  \/ \E term \in SearchInputs : ViewerSearch(term)
  \/ ViewerKeyN
  \/ ViewerKeyShiftN
  \/ ViewerKeyUp
  \/ ViewerKeyDown
  \/ ViewerEscape

SpecViewer == InitViewer /\ [][NextViewer]_vars

\* The conversations a parsed file holds: the elements of a root array, or
\* the root object alone.
ConversationsOfFile(file) ==
  IF file.kind # "json" THEN <<>>
  ELSE IF file.json.t = "array" THEN file.json.a ELSE <<file.json>>
PassesHideEmpty(conversation) ==
  ~viewer.hideEmptyConversations \/ hasNonEmptyMessages(conversation)
MessageListOf(conversation) ==
  IF Get(conversation, "chat_messages").t = "array"
  THEN Get(conversation, "chat_messages").a ELSE <<>>

\* C26: a load of a file that holds a conversation passing the hide-empty
\* filter leaves a conversation loaded: state.conversation is an element of
\* that file and state.messages is its message list.
C26_LoadShowsConversation ==
  [][\A filePath \in DOMAIN ViewerFiles :
       LET loaded == ConversationsOfFile(ViewerFiles[filePath])
       IN (/\ ViewerLoad(filePath)
           /\ \E k \in 1..Len(loaded) : PassesHideEmpty(loaded[k])) =>
            /\ viewer'.conversation # JNull
            /\ \E k \in 1..Len(loaded) : loaded[k] = viewer'.conversation
            /\ viewer'.messages = MessageListOf(viewer'.conversation)]_vars

\* C27: whenever state.conversation is not null it is the element of
\* filteredConversations at currentConversationIndex, which is in range.
C27_ConversationAtIndex ==
  viewer.conversation # JNull =>
    /\ 0 <= viewer.currentConversationIndex
    /\ viewer.currentConversationIndex < Len(viewer.filteredConversations)
    /\ viewer.filteredConversations[viewer.currentConversationIndex + 1] = viewer.conversation

\* C28: in search mode the results are not empty, searchIndex is an index
\* into them, and every result is the index of a message of state.messages
\* whose text contains the search term, letter case aside.
C28_SearchResultsCurrent ==
  viewer.searchMode =>
    /\ Len(viewer.searchResults) > 0
    /\ 0 <= viewer.searchIndex /\ viewer.searchIndex < Len(viewer.searchResults)
    /\ \A r \in 1..Len(viewer.searchResults) :
         /\ 0 <= viewer.searchResults[r] /\ viewer.searchResults[r] < Len(viewer.messages)
         /\ Includes(ToLowerCase(DerivedText(viewer.messages[viewer.searchResults[r] + 1],
                                             DoubleNewline)),
                     ToLowerCase(viewer.searchTerm))
====
